---------------------------- MODULE Spec2Model ----------------------------
(***************************************************************************)
(* Model of the Essential Conservation Sites (ECS) prioritizer of          *)
(* ConSiteTools (src/PrioritizeConSites.py): AttributeEOs, ScoreEOs and     *)
(* BuildPortfolio with their helpers addRanks, modRanks, updateTiers,       *)
(* updateSlots, updatePortfolio, updateStatus and buildSlotDict.            *)
(*                                                                         *)
(* Tables are functions over row ids, feature layers are sets of row ids    *)
(* (the rows that satisfy the layer's where clause when it is read), and    *)
(* the spatial predicate WITHIN_A_DISTANCE is the relation near.            *)
(***************************************************************************)
EXTENDS Integers, Sequences, FiniteSets, TLC

(***************************************************************************)
(* Bounds of the model.                                                    *)
(***************************************************************************)
NumEOs == 4          \* element occurrences (rows of the EO table)
UpdateEOs == 3       \* rows of the EO table of a build that keeps overrides
NumSites == 2        \* conservation sites
MaxRows == 4         \* rows of a table ranked by addRanks / modRanks alone
MaxVal == 3          \* sort values of such a table are 0..MaxVal
MaxThresh == 2       \* thresholds of such a table are 0..MaxThresh halves
MaxCount == 12       \* eligible EOs of an element in the summary-row model
MaxTypes == 1        \* site types of one EO
MaxNear == 1         \* sites within the slop distance of one EO
MaxSmall == 1        \* EOs of an element other than the largest one
MaxOverride == 1     \* rows of a table with a user override
MaxSlots == 2        \* open slots of an element of a table updated alone
AreaDecimals == 4    \* decimal digits kept of a SHAPE_Area double

NULL == 0 - 1000     \* Python None / a NULL value of a numeric field
None == "None"       \* Python None / a NULL value of a text field

Abs(x) == IF x < 0 THEN -x ELSE x

MinOf(S) == CHOOSE x \in S : \A y \in S : x <= y

MaxOf(S) == CHOOSE x \in S : \A y \in S : x >= y

(***************************************************************************)
(* A field after a cursor has written every row: the function f, held by   *)
(* its values.                                                             *)
(***************************************************************************)
Field(f) == f @@ << >>

\* the value written to every row of the table, whatever the layer holds
CalculateField_allRows(lyr, fld, val) ==
  Field([x \in DOMAIN fld |-> val])

(***************************************************************************)
(* arcpy.CalculateField_management(lyr, fld, val) with a constant val: the *)
(* field fld with val written to the rows of lyr.                          *)
(***************************************************************************)
CalculateField(lyr, fld, val) ==
  Field([x \in DOMAIN fld |-> IF x \in lyr THEN val ELSE fld[x]])

RECURSIVE Pow10(_)
Pow10(n) == IF n <= 0 THEN 1 ELSE 10 * Pow10(n - 1)

(***************************************************************************)
(* arcpy.Sort_management on one field: the values of S in the given order. *)
(***************************************************************************)
RECURSIVE SortValues(_, _)
SortValues(S, order) ==
  IF S = {} THEN << >>
  ELSE LET x == IF order = "DESCENDING" THEN MaxOf(S) ELSE MinOf(S)
       IN  << x >> \o SortValues(S \ {x}, order)

(***************************************************************************)
(* Python round(v, rounding) on a value held as an integer number of       *)
(* 10^-AreaDecimals units; rounding = NULL leaves the value alone.         *)
(***************************************************************************)
round(v, rounding) ==
  IF rounding = NULL THEN v
  ELSE LET m == Pow10(AreaDecimals - rounding)
           q == v \div m
           r == v % m
       IN  IF 2 * r < m THEN q * m
           ELSE IF 2 * r > m THEN (q + 1) * m
           ELSE IF q % 2 = 0 THEN q * m ELSE (q + 1) * m

(***************************************************************************)
(* addRanks, lines 94-105: the unique (rounded) values of one group in     *)
(* sorted order.                                                           *)
(***************************************************************************)
RECURSIVE UniqueRounded(_, _, _)
UniqueRounded(srt, rounding, acc) ==
  IF srt = << >> THEN acc
  ELSE LET v == round(Head(srt), rounding)
       IN  UniqueRounded(Tail(srt), rounding,
             IF \E i \in 1..Len(acc) : acc[i] = v THEN acc ELSE Append(acc, v))

(***************************************************************************)
(* addRanks, lines 115-119: diff > thresh.  thresh is the pair <<n, d>>    *)
(* standing for n/d; PER compares 100*|v - sortVal|/sortVal, for a sortVal *)
(* other than 0.                                                           *)
(***************************************************************************)
DiffExceeds(v, sortVal, thresh, threshtype) ==
  IF threshtype = "PER"
  THEN IF sortVal > 0
       THEN 100 * Abs(v - sortVal) * thresh[2] > thresh[1] * sortVal
       ELSE 100 * Abs(v - sortVal) * thresh[2] < thresh[1] * sortVal
  ELSE Abs(v - sortVal) * thresh[2] > thresh[1]

(***************************************************************************)
(* addRanks, lines 114-116: whether the walk over valList divides by a     *)
(* sortVal of 0 (threshtype PER), which raises ZeroDivisionError.          *)
(***************************************************************************)
RECURSIVE RankWalkRaises(_, _, _, _)
RankWalkRaises(valList, sortVal, thresh, threshtype) ==
  IF valList = << >> THEN FALSE
  ELSE IF threshtype = "PER" /\ sortVal = 0 THEN TRUE
  ELSE RankWalkRaises(Tail(valList),
                      IF DiffExceeds(Head(valList), sortVal, thresh, threshtype)
                      THEN Head(valList) ELSE sortVal,
                      thresh, threshtype)

(***************************************************************************)
(* addRanks, lines 110-126: the walk over valList; returns the ranks as a  *)
(* sequence aligned with valList.                                          *)
(***************************************************************************)
\* the walk that compares every value with the value before it
RECURSIVE RankWalk_previous(_, _, _, _, _)
RankWalk_previous(valList, sortVal, rank, thresh, threshtype) ==
  IF valList = << >> THEN << >>
  ELSE LET v == Head(valList)
           up == DiffExceeds(v, sortVal, thresh, threshtype)
           rk == IF up THEN rank + 1 ELSE rank
       IN  << rk >> \o RankWalk_previous(Tail(valList), v, rk, thresh, threshtype)

RECURSIVE RankWalk(_, _, _, _, _)
RankWalk(valList, sortVal, rank, thresh, threshtype) ==
  IF valList = << >> THEN << >>
  ELSE LET v == Head(valList)
           up == DiffExceeds(v, sortVal, thresh, threshtype)
           rk == IF up THEN rank + 1 ELSE rank
       IN  << rk >> \o RankWalk(Tail(valList), IF up THEN v ELSE sortVal, rk,
                                thresh, threshtype)

IndexOf(seq, v) == CHOOSE i \in 1..Len(seq) : seq[i] = v

(***************************************************************************)
(* The elements (ELCODE values), in the order Sort_management gives them.  *)
(***************************************************************************)
ElementOrder == << "E1", "E2" >>

Elements == {ElementOrder[i] : i \in 1..Len(ElementOrder)}

ElementIndex(e) == IndexOf(ElementOrder, e)

(***************************************************************************)
(* The values of one group of addRanks, sorted, rounded and unique.        *)
(***************************************************************************)
GroupValues(rows, grp, val, order, rounding, g) ==
  UniqueRounded(SortValues({val[r] : r \in {x \in rows : grp[x] = g}}, order),
                rounding, << >>)

(***************************************************************************)
(* addRanks with the rank counter set once, before the loop over the       *)
(* groups, so that a group starts where the group before it stopped.       *)
(***************************************************************************)
addRanks_rankKept(rows, grp, val, order, thresh, threshtype, rounding) ==
  LET groups == {grp[r] : r \in rows}
      valList(g) == GroupValues(rows, grp, val, order, rounding, g)
      rankList(g) == RankWalk(valList(g), valList(g)[1], 1, thresh, threshtype)
      earlier(g) == {h \in groups : ElementIndex(h) < ElementIndex(g)}
      before(g) == IF earlier(g) = {} THEN 0
                   ELSE LET h == CHOOSE k \in earlier(g) :
                                    \A j \in earlier(g) : ElementIndex(j) <= ElementIndex(k)
                        IN  rankList(h)[Len(rankList(h))] - 1
  IN  Field([r \in rows |->
               before(grp[r])
               + rankList(grp[r])[IndexOf(valList(grp[r]), round(val[r], rounding))]])

(***************************************************************************)
(* addRanks: rows is the set of row ids of in_Table, grp[r] the group      *)
(* (fld_rankOver) and val[r] the sort value (fld_Sorting) of row r.        *)
(* Returns the rank written to every row.                                  *)
(***************************************************************************)
addRanks(rows, grp, val, order, thresh, threshtype, rounding) ==
  LET valList(g) == GroupValues(rows, grp, val, order, rounding, g)
      rankList(g) == RankWalk(valList(g), valList(g)[1], 1, thresh, threshtype)
  IN  Field([r \in rows |->
               rankList(grp[r])[IndexOf(valList(grp[r]), round(val[r], rounding))]])

(***************************************************************************)
(* addRanks, lines 110-119: whether the call raises ZeroDivisionError.     *)
(***************************************************************************)
addRanksRaises(rows, grp, val, order, thresh, threshtype, rounding) ==
  \E g \in {grp[r] : r \in rows} :
     LET valList == GroupValues(rows, grp, val, order, rounding, g)
     IN  RankWalkRaises(valList, valList[1], thresh, threshtype)

\* the walk of standard competition ranks: the count of the rows before, plus one
RECURSIVE modRankWalk_standard(_, _, _, _)
modRankWalk_standard(ranks, rows, origRank, c0) ==
  IF ranks = << >> THEN << >>
  ELSE LET count == Cardinality({x \in rows : origRank[x] = Head(ranks)})
       IN  << c0 + 1 >> \o modRankWalk_standard(Tail(ranks), rows, origRank, c0 + count)

(***************************************************************************)
(* modRanks, lines 160-172: the walk over the frequency table of one group, *)
(* read in origRank order; ranks is the sequence of its distinct ranks and *)
(* the result maps each of them to the running count c0 + count.           *)
(***************************************************************************)
RECURSIVE modRankWalk(_, _, _, _)
modRankWalk(ranks, rows, origRank, c0) ==
  IF ranks = << >> THEN << >>
  ELSE LET count == Cardinality({x \in rows : origRank[x] = Head(ranks)})
       IN  << c0 + count >> \o modRankWalk(Tail(ranks), rows, origRank, c0 + count)

(***************************************************************************)
(* modRanks: dense ranks to modified competition ranks within each group.  *)
(***************************************************************************)
modRanks(rows, grp, origRank) ==
  LET grpRows(g) == {x \in rows : grp[x] = g}
      ranks(g) == SortValues({origRank[x] : x \in grpRows(g)}, "ASCENDING")
      newRanks(g) == modRankWalk(ranks(g), grpRows(g), origRank, 0)
  IN  Field([r \in rows |-> newRanks(grp[r])[IndexOf(ranks(grp[r]), origRank[r])]])


(***************************************************************************)
(* Domains of the prioritizer model.                                       *)
(***************************************************************************)
Sites == 1..NumSites

SiteTypes == {"SCS", "TCS"}

GRanks == {"T2", "G3"}                  \* RNDGRNK values of the elements

EORankNums == {1, 2, 10}                \* EORANK_NUM: A, A?, D

ObsYears == {2010, 2012, 2020}          \* OBSYEAR, all later than the cut year

BMIScores == {0, 4, 10}                 \* BMI_score

NAPFlags == {0, 1}                      \* ysnNAP

PFCounts == {1, 2, 4}                   \* COUNT_SFID

Areas == {10000, 10004, 10200}          \* SHAPE_Area in 10^-AreaDecimals units

Tiers == {"Irreplaceable", "Critical", "Vital", "High Priority", "General"}

(***************************************************************************)
(* unique_values(in_ConSites, "SITE_TYPE_CS"): sorted(set(...)).           *)
(***************************************************************************)
TypeOrder == << "SCS", "TCS" >>

unique_values(S) == SelectSeq(TypeOrder, LAMBDA t : t \in S)

(***************************************************************************)
(* AttributeEOs code blocks.                                               *)
(***************************************************************************)
reclass(granks) ==
  CASE granks = "T1" -> "G1"
    [] granks = "T2" -> "G2"
    [] granks = "T3" -> "G3"
    [] granks = "T4" -> "G4"
    [] granks \in {"T5", "GH", "GNA", "GNR", "GU", "TNR", "TX", "", None} -> "G5"
    [] OTHER -> granks

\* def reclass(order), the EXCLUSION value for low EO ranks
reclassOrder(order) ==
  IF order = 10 THEN "Not viable"
  ELSE IF order > 10 \/ order = NULL THEN "Error Check Needed"
  ELSE "Keep"

\* target without the cap by the number of eligible EOs
target_uncapped(grank, count) ==
  IF count # NULL
  THEN IF grank = "G1" THEN 10 ELSE IF grank = "G2" THEN 5 ELSE 2
  ELSE NULL

target(grank, count) ==
  IF count # NULL
  THEN LET initTarget == IF grank = "G1" THEN 10
                         ELSE IF grank = "G2" THEN 5
                         ELSE 2
       IN  IF count < initTarget THEN count ELSE initTarget
  ELSE NULL

calcTier(count) ==
  IF count # NULL
  THEN IF count = 1 THEN "Irreplaceable"
       ELSE IF count = 2 THEN "Critical"
       ELSE "Unassigned"
  ELSE None

(***************************************************************************)
(* ScoreEOs code blocks.                                                   *)
(***************************************************************************)
calcRank(tier) ==
  CASE tier = "Irreplaceable" -> 1
    [] tier = "Critical" -> 2
    [] tier = "Vital" -> 3
    [] tier = "High Priority" -> 4
    [] tier = "Unassigned" -> 5
    [] tier = "General" -> 6
    [] OTHER -> 7

calcConsVal(tier, grank) ==
  LET pick(g1, g2, g3, g4, g5) ==
        CASE grank = "G1" -> g1 [] grank = "G2" -> g2 [] grank = "G3" -> g3
          [] grank = "G4" -> g4 [] OTHER -> g5
  IN  CASE tier = "Irreplaceable" -> pick(100, 95, 85, 75, 70)
        [] tier = "Critical" -> pick(95, 90, 80, 70, 65)
        [] tier = "Vital" -> pick(80, 75, 65, 55, 50)
        [] tier = "High Priority" -> pick(60, 55, 45, 35, 30)
        [] tier = "Unassigned" -> pick(25, 20, 10, 5, 5)
        [] tier = "General" -> pick(5, 5, 0, 0, 0)
        [] OTHER -> 0

(***************************************************************************)
(* BuildPortfolio code blocks.                                             *)
(***************************************************************************)
calcFinalRank(tier) ==
  CASE tier = "Irreplaceable" -> 1
    [] tier = "Critical" -> 2
    [] tier = "Vital" -> 3
    [] tier = "High Priority" -> 4
    [] tier = "General" -> 5
    [] OTHER -> 6

fn(myMin) ==
  CASE myMin = 1 -> "Irreplaceable"
    [] myMin = 2 -> "Critical"
    [] myMin = 3 -> "Vital"
    [] myMin = 4 -> "High Priority"
    [] myMin = 5 -> "General"
    [] OTHER -> "NA"

calcEssential(tier) ==
  CASE tier = "Irreplaceable" -> "YES - Irreplaceable"
    [] tier = "Critical" -> "YES - Critical"
    [] tier = "Vital" -> "YES - Vital"
    [] tier = "High Priority" -> "YES - High Priority"
    [] tier = "General" -> "NO - General"
    [] OTHER -> "NA"

(***************************************************************************)
(* The orders in which the keys of a dictionary can be iterated.           *)
(***************************************************************************)
Orders(S) ==
  {o \in [1..Cardinality(S) -> S] : \A i, j \in 1..Cardinality(S) : i # j => o[i] # o[j]}

(***************************************************************************)
(* list(set(ranks)): the distinct rank values of an element's rows.  The   *)
(* ranks are the small positive integers addRanks wrote, which a CPython   *)
(* set yields in ascending order.                                          *)
(***************************************************************************)
rnksOf(rows, rank) == SortValues({rank[r] : r \in rows}, "ASCENDING")

(***************************************************************************)
(* updateTiers, lines 206-232: the while loop for one elcode.  rows are    *)
(* the rows of df with this ELCODE; returns <<TIER, availSlots>>.          *)
(***************************************************************************)
\* the while loop that also promotes the tied rows that outnumber the slots
RECURSIVE updateTiersLoop_promotesTies(_, _, _, _, _, _)
updateTiersLoop_promotesTies(tier, rows, rank, rnks, availSlots, r) ==
  IF ~(availSlots > 0 /\ r <= Len(rnks)) THEN << tier, availSlots >>
  ELSE LET q1 == {x \in rows : tier[x] = "Unassigned" /\ rank[x] <= rnks[r]}
           q2 == {x \in rows : tier[x] = "Unassigned" /\ rank[x] > rnks[r]}
           c == Cardinality(q1)
           hp == CalculateField(q1, tier, "High Priority")
       IN  IF c = 0 THEN << tier, availSlots >>
           ELSE IF c < availSlots
             THEN updateTiersLoop_promotesTies(hp, rows, rank, rnks, availSlots - c, r + 1)
           ELSE IF c = availSlots
             THEN << CalculateField(q2, hp, "General"), availSlots - c >>
           ELSE << CalculateField(q2, hp, "General"), availSlots >>

\* the while loop without the demotion to General when the slots are filled
RECURSIVE updateTiersLoop_noDemotion(_, _, _, _, _, _)
updateTiersLoop_noDemotion(tier, rows, rank, rnks, availSlots, r) ==
  IF ~(availSlots > 0 /\ r <= Len(rnks)) THEN << tier, availSlots >>
  ELSE LET q1 == {x \in rows : tier[x] = "Unassigned" /\ rank[x] <= rnks[r]}
           q2 == {x \in rows : tier[x] = "Unassigned" /\ rank[x] > rnks[r]}
           c == Cardinality(q1)
           hp == CalculateField(q1, tier, "High Priority")
       IN  IF c = 0 THEN << tier, availSlots >>
           ELSE IF c < availSlots
             THEN updateTiersLoop_noDemotion(hp, rows, rank, rnks, availSlots - c, r + 1)
           ELSE IF c = availSlots THEN << hp, availSlots - c >>
           ELSE << CalculateField(q2, tier, "General"), availSlots >>

RECURSIVE updateTiersLoop(_, _, _, _, _, _)
updateTiersLoop(tier, rows, rank, rnks, availSlots, r) ==
  IF ~(availSlots > 0 /\ r <= Len(rnks)) THEN << tier, availSlots >>
  ELSE LET q1 == {x \in rows : tier[x] = "Unassigned" /\ rank[x] <= rnks[r]}
           q2 == {x \in rows : tier[x] = "Unassigned" /\ rank[x] > rnks[r]}
           c == Cardinality(q1)
           hp == CalculateField(q1, tier, "High Priority")
       IN  IF c = 0 THEN << tier, availSlots >>
           ELSE IF c < availSlots
             THEN updateTiersLoop(hp, rows, rank, rnks, availSlots - c, r + 1)
           ELSE IF c = availSlots
             THEN << CalculateField(q2, hp, "General"), availSlots - c >>
           ELSE << CalculateField(q2, tier, "General"), availSlots >>

(***************************************************************************)
(* updateTiers, lines 201-236: the loop over the keys of targetDict, in    *)
(* the order keys; returns <<TIER, targetDict>>.                           *)
(***************************************************************************)
\* the loop over the keys with queries that lack the test of ELCODE
RECURSIVE updateTiersKeys_anyElcode(_, _, _, _, _, _)
updateTiersKeys_anyElcode(keys, lyr, elcode, tier, targetDict, rank) ==
  IF keys = << >> THEN << tier, targetDict >>
  ELSE LET rows == {x \in lyr : elcode[x] = Head(keys)}
           res == updateTiersLoop(tier, lyr, rank, rnksOf(rows, rank),
                                  targetDict[Head(keys)], 1)
       IN  updateTiersKeys_anyElcode(Tail(keys), lyr, elcode, res[1],
                                     [targetDict EXCEPT ![Head(keys)] = res[2]], rank)

RECURSIVE updateTiersKeys(_, _, _, _, _, _)
updateTiersKeys(keys, lyr, elcode, tier, targetDict, rank) ==
  IF keys = << >> THEN << tier, targetDict >>
  ELSE LET rows == {x \in lyr : elcode[x] = Head(keys)}
           res == updateTiersLoop(tier, rows, rank, rnksOf(rows, rank),
                                  targetDict[Head(keys)], 1)
       IN  updateTiersKeys(Tail(keys), lyr, elcode, res[1],
                           [targetDict EXCEPT ![Head(keys)] = res[2]], rank)

(***************************************************************************)
(* updateTiers: lyr is the layer in_procEOs, elcode and tier the ELCODE    *)
(* and TIER fields, rank the rank field on the rows of lyr, keys the       *)
(* iteration order of targetDict.  Returns [TIER, targetDict] with the     *)
(* keys without open slots removed.                                        *)
(***************************************************************************)
updateTiers(lyr, elcode, tier, targetDict, rank, keys) ==
  LET res == updateTiersKeys(keys, lyr, elcode, tier, targetDict, rank)
  IN  [TIER |-> Field([x \in DOMAIN tier |-> IF x \in lyr THEN res[1][x] ELSE tier[x]]),
       targetDict |-> Field([e \in {k \in DOMAIN res[2] : res[2][k] # 0} |-> res[2][e]])]

(***************************************************************************)
(* updateSlots, lines 276-303: the while loop for one elcode; returns      *)
(* <<PORTFOLIO, OVERRIDE, availSlots>>.                                    *)
(***************************************************************************)
\* the while loop that adds the tied rows that outnumber the slots
RECURSIVE updateSlotsLoop_addsTies(_, _, _, _, _, _, _, _)
updateSlotsLoop_addsTies(tier, pf, ov, rows, rank, rnks, availSlots, r) ==
  IF ~(availSlots > 0 /\ r <= Len(rnks)) THEN << pf, ov, availSlots >>
  ELSE LET q1 == {x \in rows : tier[x] = "Unassigned" /\ pf[x] = 0
                                /\ rank[x] <= rnks[r]}
           q2 == {x \in rows : tier[x] = "Unassigned" /\ pf[x] = 0
                                /\ rank[x] > rnks[r]}
           c == Cardinality(q1)
           add == CalculateField(q1, pf, 1)
       IN  IF c = 0 THEN << pf, ov, availSlots >>
           ELSE IF c < availSlots
             THEN updateSlotsLoop_addsTies(tier, add, ov, rows, rank, rnks, availSlots - c, r + 1)
           ELSE IF c = availSlots THEN << add, ov, availSlots - c >>
           ELSE << add, CalculateField(q2, ov, -2), availSlots >>

RECURSIVE updateSlotsLoop(_, _, _, _, _, _, _, _)
updateSlotsLoop(tier, pf, ov, rows, rank, rnks, availSlots, r) ==
  IF ~(availSlots > 0 /\ r <= Len(rnks)) THEN << pf, ov, availSlots >>
  ELSE LET q1 == {x \in rows : tier[x] = "Unassigned" /\ pf[x] = 0
                                /\ rank[x] <= rnks[r]}
           q2 == {x \in rows : tier[x] = "Unassigned" /\ pf[x] = 0
                                /\ rank[x] > rnks[r]}
           c == Cardinality(q1)
           add == CalculateField(q1, pf, 1)
       IN  IF c = 0 THEN << pf, ov, availSlots >>
           ELSE IF c < availSlots
             THEN updateSlotsLoop(tier, add, ov, rows, rank, rnks, availSlots - c, r + 1)
           ELSE IF c = availSlots THEN << add, ov, availSlots - c >>
           ELSE << pf, CalculateField(q2, ov, -2), availSlots >>

(***************************************************************************)
(* updateSlots, lines 272-305: the loop over the keys of slotDict, in the  *)
(* order keys; returns <<PORTFOLIO, OVERRIDE, slotDict>>.                  *)
(***************************************************************************)
RECURSIVE updateSlotsKeys(_, _, _, _, _, _, _, _)
updateSlotsKeys(keys, lyr, elcode, tier, pf, ov, slotDict, rank) ==
  IF keys = << >> THEN << pf, ov, slotDict >>
  ELSE LET rows == {x \in lyr : elcode[x] = Head(keys)}
           res == updateSlotsLoop(tier, pf, ov, rows, rank, rnksOf(rows, rank),
                                  slotDict[Head(keys)], 1)
       IN  updateSlotsKeys(Tail(keys), lyr, elcode, tier, res[1], res[2],
                           [slotDict EXCEPT ![Head(keys)] = res[3]], rank)

(***************************************************************************)
(* updateSlots: lyr is the layer in_procEOs; returns                       *)
(* [PORTFOLIO, OVERRIDE, slotDict] with the keys without open slots        *)
(* removed.                                                                *)
(***************************************************************************)
updateSlots(lyr, elcode, tier, pf, ov, slotDict, rank, keys) ==
  LET res == updateSlotsKeys(keys, lyr, elcode, tier, pf, ov, slotDict, rank)
  IN  [PORTFOLIO |-> Field([x \in DOMAIN pf |-> IF x \in lyr THEN res[1][x] ELSE pf[x]]),
       OVERRIDE |-> Field([x \in DOMAIN ov |->
                             IF x \in lyr /\ res[2][x] = -2 THEN -2 ELSE ov[x]]),
       slotDict |-> Field([e \in {k \in DOMAIN res[3] : res[3][k] # 0} |-> res[3][e]])]

(***************************************************************************)
(* State.  EO fields are functions over EOs, site fields functions over    *)
(* Sites; sumTab holds one record per element; targetDict and slotDict are *)
(* the dictionaries of ScoreEOs and BuildPortfolio; pc is the position in  *)
(* the workflow.  inp and out hold the arguments and the result of a       *)
(* helper that is run on its own.                                          *)
(***************************************************************************)
VARIABLES pc, build, ELCODE, RNDGRNK, EORANK_NUM, OBSYEAR, EXCLUSION, TIER,
          ChoiceRANK, EO_CONSVALUE, SITE_TYPE_EO, PORTFOLIO, OVERRIDE, FinalRANK,
          EEO_TIER, ESSENTIAL, sumTab, targetDict, slotDict, SITE_TYPE_CS, near,
          tmpCS, CS_PORTFOLIO, CS_OVERRIDE, ECS_TIER, CS_ESSENTIAL, inp, out

eoInput == << ELCODE, RNDGRNK >>

eoScore == << EORANK_NUM, OBSYEAR, EXCLUSION, ChoiceRANK, EO_CONSVALUE >>

eoFinal == << FinalRANK, EEO_TIER, ESSENTIAL >>

geometry == << SITE_TYPE_EO, SITE_TYPE_CS, near, tmpCS >>

csFinal == << ECS_TIER, CS_ESSENTIAL >>

helper == << inp, out >>

vars == << pc, build, ELCODE, RNDGRNK, EORANK_NUM, OBSYEAR, EXCLUSION, TIER,
           ChoiceRANK, EO_CONSVALUE, SITE_TYPE_EO, PORTFOLIO, OVERRIDE, FinalRANK,
           EEO_TIER, ESSENTIAL, sumTab, targetDict, slotDict, SITE_TYPE_CS, near,
           tmpCS, CS_PORTFOLIO, CS_OVERRIDE, ECS_TIER, CS_ESSENTIAL, inp, out >>

\* the rows of the EO table
EOs == DOMAIN ELCODE

RECURSIVE SumOver(_, _)
SumOver(S, f) ==
  IF S = {} THEN 0
  ELSE LET x == CHOOSE y \in S : TRUE IN f[x] + SumOver(S \ {x}, f)

(***************************************************************************)
(* The rows of a table are listed in a fixed order: rows that agree on     *)
(* every field so far are interchangeable, and the value drawn for them    *)
(* is listed in ascending order of code.                                   *)
(***************************************************************************)
Listed(same(_, _), code(_)) ==
  \A x, y \in EOs : (x < y /\ same(x, y)) => code(x) <= code(y)

(***************************************************************************)
(* The inputs of the workflow: the EOs with their element and EO rank, and *)
(* the global rank of every element that has an EO.  All observations are  *)
(* later than the cut year and no element is on the exclusion list.  The   *)
(* EOs are listed by element and EO rank, the largest element first.       *)
(***************************************************************************)
InitEOs(n) ==
  /\ ELCODE \in [1..n -> Elements]
  /\ EORANK_NUM \in [1..n -> EORankNums]
  /\ \A x, y \in EOs : x < y =>
        \/ ElementIndex(ELCODE[x]) < ElementIndex(ELCODE[y])
        \/ ELCODE[x] = ELCODE[y] /\ EORANK_NUM[x] <= EORANK_NUM[y]
  /\ \A i \in 2..Len(ElementOrder) :
        Cardinality({x \in EOs : ELCODE[x] = ElementOrder[i]}) <= MaxSmall
  /\ RNDGRNK \in [{ELCODE[x] : x \in EOs} -> GRanks]

InitFields ==
  /\ OBSYEAR = [x \in EOs |-> NULL]
  /\ EXCLUSION = [x \in EOs |-> None]
  /\ TIER = [x \in EOs |-> None]
  /\ ChoiceRANK = [x \in EOs |-> NULL]
  /\ EO_CONSVALUE = [x \in EOs |-> NULL]
  /\ SITE_TYPE_EO = [x \in EOs |-> {}]
  /\ PORTFOLIO = [x \in EOs |-> NULL]
  /\ OVERRIDE = [x \in EOs |-> NULL]
  /\ FinalRANK = [x \in EOs |-> NULL]
  /\ EEO_TIER = [x \in EOs |-> None]
  /\ ESSENTIAL = [x \in EOs |-> None]
  /\ sumTab = << >>
  /\ targetDict = << >>
  /\ slotDict = << >>
  /\ SITE_TYPE_CS = [c \in Sites |-> None]
  /\ near = {}
  /\ tmpCS = {}
  /\ CS_PORTFOLIO = [c \in Sites |-> NULL]
  /\ CS_OVERRIDE = [c \in Sites |-> NULL]
  /\ ECS_TIER = [c \in Sites |-> None]
  /\ CS_ESSENTIAL = [c \in Sites |-> None]

Init ==
  /\ pc = "AttributeEOs"
  /\ build = "NEW"
  /\ InitEOs(NumEOs)
  /\ InitFields
  /\ inp = << >>
  /\ out = << >>

(***************************************************************************)
(* AttributeEOs, lines 1158-1186 and 1239-1336: EXCLUSION, the summary     *)
(* table with COUNT_ELIG_EO, TARGET and INIT_TIER, and TIER joined to the  *)
(* EOs of the layer EXCLUSION = 'Keep'.                                    *)
(***************************************************************************)
AttributeEOs ==
  /\ pc = "AttributeEOs"
  /\ LET excl == [x \in EOs |-> reclassOrder(EORANK_NUM[x])]
         lyr_EO == {x \in EOs : excl[x] = "Keep"}
         count(e) == LET n == Cardinality({x \in lyr_EO : ELCODE[x] = e})
                     IN  IF n = 0 THEN NULL ELSE n
         tab == [e \in DOMAIN RNDGRNK |->
                   [NEW_GRANK |-> reclass(RNDGRNK[e]),
                    COUNT_ELIG_EO |-> count(e),
                    TARGET |-> target(reclass(RNDGRNK[e]), count(e)),
                    INIT_TIER |-> calcTier(count(e)),
                    PORTFOLIO |-> NULL]]
     IN  /\ EXCLUSION' = excl
         /\ sumTab' = tab
         /\ TIER' = [x \in EOs |-> IF x \in lyr_EO THEN tab[ELCODE[x]].INIT_TIER
                                   ELSE None]
  /\ pc' = "RANK_eo"
  /\ UNCHANGED << build, eoInput, EORANK_NUM, OBSYEAR, ChoiceRANK, EO_CONSVALUE,
                  PORTFOLIO, OVERRIDE, eoFinal, targetDict, slotDict, geometry,
                  CS_PORTFOLIO, CS_OVERRIDE, csFinal, helper >>

(***************************************************************************)
(* ScoreEOs, lines 1367-1385: targetDict of the elements whose INIT_TIER   *)
(* is Unassigned, RANK_eo on the Unassigned EOs and the tier update.       *)
(* ysnMil is "false": RANK_mil is 0 and takes no part.                     *)
(***************************************************************************)
ScoreRankEO ==
  /\ pc = "RANK_eo"
  /\ LET choiceTab == {e \in DOMAIN sumTab : sumTab[e].INIT_TIER = "Unassigned"}
         dict == [e \in choiceTab |-> sumTab[e].TARGET]
         lyr_EO == {x \in EOs : TIER[x] = "Unassigned"}
         RANK_eo == addRanks(lyr_EO, ELCODE, EORANK_NUM, "ASCENDING", << 1, 2 >>,
                             "ABS", NULL)
     IN  \E keys \in Orders(choiceTab) :
           \E res \in {updateTiers(lyr_EO, ELCODE, TIER, dict, RANK_eo, keys)} :
             /\ TIER' = res.TIER
             /\ targetDict' = res.targetDict
  /\ pc' = "RANK_year"
  /\ UNCHANGED << build, eoInput, eoScore, PORTFOLIO, OVERRIDE, eoFinal, sumTab,
                  slotDict, geometry, CS_PORTFOLIO, CS_OVERRIDE, csFinal, helper >>

(***************************************************************************)
(* ScoreEOs, lines 1387-1394 (ysnYear is "true"): RANK_year on the EOs     *)
(* still Unassigned and the tier update.  OBSYEAR is read here for the     *)
(* first time, of the EOs that are Unassigned or High Priority.            *)
(***************************************************************************)
ScoreRankYear ==
  /\ pc = "RANK_year"
  /\ \E years \in [EOs -> ObsYears \cup {NULL}] :
       /\ \A x \in EOs : years[x] # NULL <=> TIER[x] \in {"Unassigned", "High Priority"}
       /\ Listed(LAMBDA x, y : ELCODE[x] = ELCODE[y] /\ EORANK_NUM[x] = EORANK_NUM[y]
                                /\ TIER[x] = TIER[y],
                 LAMBDA x : years[x])
       /\ OBSYEAR' = years
       /\ LET lyr_EO == {x \in EOs : TIER[x] = "Unassigned"}
              RANK_year == addRanks(lyr_EO, ELCODE, years, "DESCENDING", << 3, 1 >>,
                                    "ABS", NULL)
          IN  \E keys \in Orders(DOMAIN targetDict) :
                \E res \in {updateTiers(lyr_EO, ELCODE, TIER, targetDict, RANK_year,
                                        keys)} :
                  /\ TIER' = res.TIER
                  /\ targetDict' = res.targetDict
  /\ pc' = "Vital"
  /\ UNCHANGED << build, eoInput, EORANK_NUM, EXCLUSION, ChoiceRANK, EO_CONSVALUE,
                  PORTFOLIO, OVERRIDE, eoFinal, sumTab, slotDict, geometry,
                  CS_PORTFOLIO, CS_OVERRIDE, csFinal, helper >>

(***************************************************************************)
(* ScoreEOs, lines 1411-1418 and 1426-1433: of the rows of lyr with rank   *)
(* 1, those whose ELCODE occurs once.                                      *)
(***************************************************************************)
\* the rows with rank 1 without the test that their ELCODE occurs once
TopOnce_any(lyr, rank) == {x \in lyr : rank[x] = 1}

TopOnce(lyr, rank) ==
  LET top == {x \in lyr : rank[x] = 1}
  IN  {x \in top : Cardinality({y \in top : ELCODE[y] = ELCODE[x]}) = 1}

(***************************************************************************)
(* ScoreEOs, lines 1400-1441: the EOs that become Vital.  rnkEOs is the    *)
(* copy of the High Priority EOs; RANK_eo is recalculated on it, and       *)
(* RANK_year on its rows with RANK_eo = 1 of the elements still without a  *)
(* Vital EO.                                                               *)
(***************************************************************************)
VitalEOs(tier) ==
  LET rnkEOs == {x \in EOs : tier[x] = "High Priority"}
      RANK_eo == addRanks(rnkEOs, ELCODE, EORANK_NUM, "ASCENDING", << 1, 2 >>,
                          "ABS", NULL)
      byRank == TopOnce(rnkEOs, RANK_eo)
      elcodes == {ELCODE[x] : x \in byRank}
      lyr == {x \in rnkEOs : RANK_eo[x] = 1 /\ ELCODE[x] \notin elcodes}
      RANK_year == addRanks(lyr, ELCODE, OBSYEAR, "DESCENDING", << 3, 1 >>,
                            "ABS", NULL)
  IN  byRank \cup TopOnce(lyr, RANK_year)

(***************************************************************************)
(* ScoreEOs, lines 1400-1542: the Vital tier, ChoiceRANK and EO_CONSVALUE. *)
(* EORANK_NUM and OBSYEAR are not read by any later step of the model and  *)
(* leave the state here, as does the local targetDict.                     *)
(***************************************************************************)
ScoreVital ==
  /\ pc = "Vital"
  /\ \E tier \in {CalculateField(VitalEOs(TIER), TIER, "Vital")} :
         /\ TIER' = tier
         /\ ChoiceRANK' = [x \in EOs |-> calcRank(tier[x])]
         /\ EO_CONSVALUE' = [x \in EOs |->
                               calcConsVal(tier[x], sumTab[ELCODE[x]].NEW_GRANK)]
  /\ EORANK_NUM' = [x \in EOs |-> NULL]
  /\ OBSYEAR' = [x \in EOs |-> NULL]
  /\ targetDict' = << >>
  /\ pc' = "BuildPortfolio"
  /\ UNCHANGED << build, eoInput, EXCLUSION, PORTFOLIO, OVERRIDE, eoFinal, sumTab,
                  slotDict, geometry, CS_PORTFOLIO, CS_OVERRIDE, csFinal, helper >>

(***************************************************************************)
(* updatePortfolio, lines 334-379: the loop over the site types st.  geo   *)
(* holds the site types, the sites of in_ConSites with their OVERRIDE and  *)
(* the EO-site pairs within the slop distance; tier, pf and ov are the     *)
(* TIER, PORTFOLIO and OVERRIDE fields of the EOs and cspf the PORTFOLIO   *)
(* field of the sites.  hasDict tells whether slotDict is given (not       *)
(* None); slots is the slotDict the caller passed, which is not updated    *)
(* between site types.  lyr_EO2 is a layer made from the    *)
(* selected rows of lyr_EO: it holds those rows, SWITCH_SELECTION selects  *)
(* them all and SUBSET_SELECTION keeps the rows of the elements of rm.     *)
(* Returns <<PORTFOLIO, OVERRIDE, PORTFOLIO of the sites>>.                *)
(***************************************************************************)
\* the loop with a first where clause that lacks the test OVERRIDE > -1
RECURSIVE updatePortfolioLoop_noOverride(_, _, _, _, _, _, _, _, _)
updatePortfolioLoop_noOverride(geo, st, tier, pf, ov, cspf, slots, hasDict, bycatch) ==
  IF st = << >> THEN << pf, ov, cspf >>
  ELSE LET s == Head(st)
           lyr_EO == {x \in EOs : /\ s \in geo.SITE_TYPE_EO[x]
                                  /\ (ChoiceRANK[x] <= 4 \/ pf[x] = 1)}
           lyr_CS == {c \in geo.tmpCS : geo.SITE_TYPE_CS[c] = s /\ geo.CS_OVERRIDE[c] > -1}
           selCS == {c \in lyr_CS : \E x \in lyr_EO : << x, c >> \in geo.near}
           cspf1 == CalculateField(selCS, cspf, 1)
           pf1 == CalculateField(lyr_EO, pf, 1)
           elcodes == {k \in DOMAIN slots : slots[k] # 0}
           lyr_EOb == {x \in EOs : /\ s \in geo.SITE_TYPE_EO[x]
                                   /\ tier[x] = "Unassigned"
                                   /\ pf1[x] = 0
                                   /\ ov[x] > -1
                                   /\ (hasDict => ELCODE[x] \in elcodes)}
           lyr_CSb == {c \in geo.tmpCS : geo.SITE_TYPE_CS[c] = s /\ cspf1[c] = 1}
           sel == {x \in lyr_EOb : \E c \in lyr_CSb : << x, c >> \in geo.near}
           byDict == [b \in {ELCODE[x] : x \in sel} |->
                        Cardinality({x \in sel : ELCODE[x] = b})]
           rm == IF hasDict THEN {b \in DOMAIN byDict : byDict[b] > slots[b]}
                 ELSE {}
           lyr_EO2 == {x \in sel : ELCODE[x] \in rm}
           ov2 == CalculateField(lyr_EO2, ov, -2)
           pf2 == CalculateField(sel \ lyr_EO2, pf1, 1)
       IN  IF bycatch
           THEN updatePortfolioLoop_noOverride(geo, Tail(st), tier, pf2, ov2, cspf1, slots,
                                    hasDict, bycatch)
           ELSE updatePortfolioLoop_noOverride(geo, Tail(st), tier, pf1, ov, cspf1, slots,
                                    hasDict, bycatch)

RECURSIVE updatePortfolioLoop(_, _, _, _, _, _, _, _, _)
updatePortfolioLoop(geo, st, tier, pf, ov, cspf, slots, hasDict, bycatch) ==
  IF st = << >> THEN << pf, ov, cspf >>
  ELSE LET s == Head(st)
           lyr_EO == {x \in EOs : /\ s \in geo.SITE_TYPE_EO[x]
                                  /\ (ChoiceRANK[x] <= 4 \/ pf[x] = 1)
                                  /\ ov[x] > -1}
           lyr_CS == {c \in geo.tmpCS : geo.SITE_TYPE_CS[c] = s /\ geo.CS_OVERRIDE[c] > -1}
           selCS == {c \in lyr_CS : \E x \in lyr_EO : << x, c >> \in geo.near}
           cspf1 == CalculateField(selCS, cspf, 1)
           pf1 == CalculateField(lyr_EO, pf, 1)
           elcodes == {k \in DOMAIN slots : slots[k] # 0}
           lyr_EOb == {x \in EOs : /\ s \in geo.SITE_TYPE_EO[x]
                                   /\ tier[x] = "Unassigned"
                                   /\ pf1[x] = 0
                                   /\ ov[x] > -1
                                   /\ (hasDict => ELCODE[x] \in elcodes)}
           lyr_CSb == {c \in geo.tmpCS : geo.SITE_TYPE_CS[c] = s /\ cspf1[c] = 1}
           sel == {x \in lyr_EOb : \E c \in lyr_CSb : << x, c >> \in geo.near}
           byDict == [b \in {ELCODE[x] : x \in sel} |->
                        Cardinality({x \in sel : ELCODE[x] = b})]
           rm == IF hasDict THEN {b \in DOMAIN byDict : byDict[b] > slots[b]}
                 ELSE {}
           lyr_EO2 == {x \in sel : ELCODE[x] \in rm}
           ov2 == CalculateField(lyr_EO2, ov, -2)
           pf2 == CalculateField(sel \ lyr_EO2, pf1, 1)
       IN  IF bycatch
           THEN updatePortfolioLoop(geo, Tail(st), tier, pf2, ov2, cspf1, slots,
                                    hasDict, bycatch)
           ELSE updatePortfolioLoop(geo, Tail(st), tier, pf1, ov, cspf1, slots,
                                    hasDict, bycatch)

(***************************************************************************)
(* updateStatus, lines 390 and 403-409: the PORTFOLIO field of the summary *)
(* table, the sum of PORTFOLIO over the EOs of the element with            *)
(* OVERRIDE <> -1; NULL for an element without such an EO.                 *)
(***************************************************************************)
updateStatus(tab, pf, ov) ==
  Field([e \in DOMAIN tab |->
          LET lyr_EO == {x \in EOs : ov[x] # -1 /\ ELCODE[x] = e}
          IN  [tab[e] EXCEPT !.PORTFOLIO = IF lyr_EO = {} THEN NULL
                                           ELSE SumOver(lyr_EO, pf)]])

(***************************************************************************)
(* buildSlotDict: the open slots of the elements with PORTFOLIO < TARGET.  *)
(***************************************************************************)
\* the slot dictionary that also lists the elements with PORTFOLIO = TARGET
buildSlotDict_filled(tab) ==
  Field([e \in {k \in DOMAIN tab : /\ tab[k].PORTFOLIO # NULL
                                    /\ tab[k].TARGET # NULL
                                    /\ tab[k].PORTFOLIO <= tab[k].TARGET} |->
           tab[e].TARGET - tab[e].PORTFOLIO])

buildSlotDict(tab) ==
  Field([e \in {k \in DOMAIN tab : /\ tab[k].PORTFOLIO # NULL
                                    /\ tab[k].TARGET # NULL
                                    /\ tab[k].PORTFOLIO < tab[k].TARGET} |->
           tab[e].TARGET - tab[e].PORTFOLIO])

(***************************************************************************)
(* updatePortfolio: returns the updated fields, summary table and the new  *)
(* slotDict.                                                               *)
(***************************************************************************)
updatePortfolio(geo, tier, pf, ov, cspf, tab, slots, hasDict, bycatch) ==
  LET st == unique_values({geo.SITE_TYPE_CS[c] : c \in geo.tmpCS})
      res == updatePortfolioLoop(geo, st, tier, pf, ov, cspf, slots, hasDict, bycatch)
      tab2 == updateStatus(tab, res[1], res[2])
  IN  [PORTFOLIO |-> res[1], OVERRIDE |-> res[2], CS_PORTFOLIO |-> res[3],
       sumTab |-> tab2, slotDict |-> buildSlotDict(tab2)]

(***************************************************************************)
(* SpatialJoin_byType: the pairs of an EO and a site of tmpCS of a type of *)
(* the EO that lie within the slop distance of each other.                 *)
(***************************************************************************)
\* the spatial join without the selection by site type
SpatialJoin_anyType(geo) ==
  {j \in geo.near : j[2] \in geo.tmpCS}

SpatialJoin_byType(geo) ==
  {j \in geo.near : /\ j[2] \in geo.tmpCS
                    /\ geo.SITE_TYPE_CS[j[2]] \in geo.SITE_TYPE_EO[j[1]]}

Geo ==
  [SITE_TYPE_EO |-> SITE_TYPE_EO, SITE_TYPE_CS |-> SITE_TYPE_CS, near |-> near,
   tmpCS |-> tmpCS, CS_OVERRIDE |-> CS_OVERRIDE]

(***************************************************************************)
(* BuildPortfolio, lines 1651-1676 (build NEW): CS_CONSVALUE of a site is  *)
(* the sum of EO_CONSVALUE over the EOs joined to it; CS_CONSVALUE of an   *)
(* EO is the maximum over the sites it is joined to, 0 when it is joined   *)
(* to none (NullToZero).                                                   *)
(***************************************************************************)
CS_CONSVALUE(x) ==
  LET eo_cs == SpatialJoin_byType(Geo)
      siteVal(c) == SumOver({j[1] : j \in {k \in eo_cs : k[2] = c}}, EO_CONSVALUE)
      mine == {j[2] : j \in {k \in eo_cs : k[1] = x}}
  IN  IF mine = {} THEN 0 ELSE MaxOf({siteVal(c) : c \in mine})

(***************************************************************************)
(* The positions an EO can have: its site types and the sites within the   *)
(* slop distance of it.  Every EO lies near some site, of its own type or  *)
(* of another; an EO that lies near no site is treated by every step as    *)
(* one that lies near sites of other types only.                           *)
(***************************************************************************)
EOPlaces ==
  {p \in [types : SUBSET SiteTypes, near : SUBSET Sites] :
     Cardinality(p.types) \in 1..MaxTypes /\ Cardinality(p.near) \in 1..MaxNear}

RECURSIVE Pow2(_)
Pow2(n) == IF n <= 0 THEN 1 ELSE 2 * Pow2(n - 1)

PlaceCode ==
  Field([p \in EOPlaces |->
           SumOver(p.types, [t \in SiteTypes |-> Pow2(NumSites + IndexOf(TypeOrder, t))])
           + SumOver(p.near, [c \in Sites |-> Pow2(c - 1)])])

(***************************************************************************)
(* The site types of the sites: the types of TypeOrder in turn.            *)
(***************************************************************************)
SitePlaces == {[c \in Sites |-> TypeOrder[((c - 1) % Len(TypeOrder)) + 1]]}

(***************************************************************************)
(* The OVERRIDE values of the input.  Builds that reset the field start    *)
(* from zero; the others keep what the user entered, a value other than 0  *)
(* in at most MaxOverride rows of the EOs and the sites together.          *)
(***************************************************************************)
Overridden(f) == Cardinality({r \in DOMAIN f : f[r] # 0})

Overrides(rows, reset) ==
  IF reset THEN {[r \in rows |-> 0]}
  ELSE {f \in [rows -> {-1, 0, 1}] : Overridden(f) <= MaxOverride}

(***************************************************************************)
(* BuildPortfolio, lines 1617-1636 and 1678-1682: PORTFOLIO set to zero or *)
(* to OVERRIDE, the portfolio updated without bycatch and then, with the   *)
(* slotDict of the first update, with bycatch.                             *)
(***************************************************************************)
BuildStartPortfolio(geo, tier, ov, tab) ==
  LET first == updatePortfolio(geo, tier, ov, ov, geo.CS_OVERRIDE, tab,
                               << >>, FALSE, FALSE)
  IN  updatePortfolio(geo, tier, first.PORTFOLIO, first.OVERRIDE, first.CS_PORTFOLIO,
                      first.sumTab, first.slotDict, TRUE, TRUE)

(***************************************************************************)
(* BuildPortfolio, lines 1589-1682.  The sites, the site types, the        *)
(* positions of EOs and sites and the overrides are read here for the      *)
(* first time.  tmpCS is the subset of the sites of a type present in the  *)
(* EOs; PORTFOLIO and OVERRIDE are reset or kept as the build type says,   *)
(* and TIER is reset to Unassigned where ChoiceRANK = 5.                   *)
(***************************************************************************)
BuildStart ==
  /\ pc = "BuildPortfolio"
  /\ \E types_cs \in SitePlaces, place \in [EOs -> EOPlaces],
        ov \in Overrides(EOs, build \in {"NEW", "NEW_EO"}),
        csov \in Overrides(Sites, build \in {"NEW", "NEW_CS"}) :
       /\ Overridden(ov) + Overridden(csov) <= MaxOverride
       /\ Listed(LAMBDA x, y : ELCODE[x] = ELCODE[y] /\ TIER[x] = TIER[y],
                 LAMBDA x : 3 * PlaceCode[place[x]] + ov[x])
       /\ SITE_TYPE_CS' = types_cs
       /\ SITE_TYPE_EO' = [x \in EOs |-> place[x].types]
       /\ near' = {j \in EOs \X Sites : j[2] \in place[j[1]].near}
       /\ tmpCS' = {c \in Sites : \E x \in EOs : types_cs[c] \in place[x].types}
       /\ CS_OVERRIDE' = csov
       /\ TIER' = IF build \in {"NEW", "NEW_EO"} THEN TIER
                  ELSE CalculateField({x \in EOs : ChoiceRANK[x] = 5}, TIER, "Unassigned")
       /\ \E res \in {BuildStartPortfolio(Geo', TIER', ov, sumTab)} :
            /\ PORTFOLIO' = res.PORTFOLIO
            /\ OVERRIDE' = res.OVERRIDE
            /\ CS_PORTFOLIO' = res.CS_PORTFOLIO
            /\ sumTab' = res.sumTab
            /\ slotDict' = res.slotDict
  /\ pc' = "RANK_bmi"
  /\ UNCHANGED << build, eoInput, eoScore, eoFinal, targetDict, csFinal, helper >>

(***************************************************************************)
(* BuildPortfolio, the workflow of one ranking factor (lines 1691-1697 and *)
(* the four blocks after it): the layer of the still Unassigned EOs of the *)
(* elements with open slots.                                               *)
(***************************************************************************)
\* the layer of a ranking factor without the test OVERRIDE > -1
FactorLayer_keepsDropped ==
  {x \in EOs : /\ TIER[x] = "Unassigned"
               /\ PORTFOLIO[x] = 0
               /\ ELCODE[x] \in DOMAIN slotDict}

FactorLayer ==
  {x \in EOs : /\ TIER[x] = "Unassigned"
               /\ OVERRIDE[x] > -1
               /\ PORTFOLIO[x] = 0
               /\ ELCODE[x] \in DOMAIN slotDict}

(***************************************************************************)
(* The values of a ranking field on the rows of the layer lyr, read when   *)
(* the factor is applied.                                                  *)
(***************************************************************************)
FactorValues(lyr, values) ==
  {f \in [lyr -> values] :
     \A x, y \in lyr :
        (/\ x < y
         /\ ELCODE[x] = ELCODE[y]
         /\ SITE_TYPE_EO[x] = SITE_TYPE_EO[y]
         /\ \A c \in Sites : << x, c >> \in near <=> << y, c >> \in near)
        => f[x] <= f[y]}

(***************************************************************************)
(* updateSlots on the layer with the ranks just added, then                *)
(* updatePortfolio with the slotDict it returned.                          *)
(***************************************************************************)
FillSlots(lyr, rank, keys) ==
  LET slots == updateSlots(lyr, ELCODE, TIER, PORTFOLIO, OVERRIDE, slotDict, rank, keys)
  IN  updatePortfolio(Geo, TIER, slots.PORTFOLIO, slots.OVERRIDE, CS_PORTFOLIO,
                      sumTab, slots.slotDict, TRUE, TRUE)

(***************************************************************************)
(* One ranking factor: fields(lyr) are the possible values of its sorting  *)
(* field on the layer.                                                     *)
(***************************************************************************)
Factor(here, fields(_), order, thresh, rounding, next) ==
  /\ pc = here
  /\ Cardinality(DOMAIN slotDict) > 0
  /\ \E lyr \in {FactorLayer} :
       \E val \in fields(lyr), keys \in Orders(DOMAIN slotDict) :
         \E res \in {FillSlots(lyr, addRanks(lyr, ELCODE, val, order, thresh, "ABS",
                                             rounding), keys)} :
           /\ PORTFOLIO' = res.PORTFOLIO
           /\ OVERRIDE' = res.OVERRIDE
           /\ CS_PORTFOLIO' = res.CS_PORTFOLIO
           /\ sumTab' = res.sumTab
           /\ slotDict' = res.slotDict
  /\ pc' = next
  /\ UNCHANGED << build, eoInput, eoScore, TIER, eoFinal, targetDict, geometry,
                  CS_OVERRIDE, csFinal, helper >>

\* lines 1690-1697: BMI_score, descending, threshold 5
FactorBMI ==
  Factor("RANK_bmi", LAMBDA lyr : FactorValues(lyr, BMIScores), "DESCENDING",
         << 5, 1 >>, NULL, "RANK_nap")

\* lines 1699-1705: ysnNAP, descending, threshold 0.5
FactorNAP ==
  Factor("RANK_nap", LAMBDA lyr : FactorValues(lyr, NAPFlags), "DESCENDING",
         << 1, 2 >>, NULL, "RANK_csVal")

\* lines 1707-1713: CS_CONSVALUE, descending, threshold 1
FactorCsVal ==
  Factor("RANK_csVal", LAMBDA lyr : {[x \in lyr |-> CS_CONSVALUE(x)]}, "DESCENDING",
         << 1, 1 >>, NULL, "RANK_numPF")

\* lines 1715-1721: COUNT_SFID, descending, threshold 1
FactorNumPF ==
  Factor("RANK_numPF", LAMBDA lyr : FactorValues(lyr, PFCounts), "DESCENDING",
         << 1, 1 >>, NULL, "RANK_eoArea")

\* lines 1723-1730: SHAPE_Area rounded to 3 digits, descending, threshold 0.01
FactorArea ==
  Factor("RANK_eoArea", LAMBDA lyr : FactorValues(lyr, Areas), "DESCENDING",
         << Pow10(AreaDecimals), 100 >>, 3, "Finalize")

(***************************************************************************)
(* BuildPortfolio, lines 1732-1739: the Unassigned EOs in the portfolio    *)
(* become High Priority, the others General.                               *)
(***************************************************************************)
\* the finalization that makes every Unassigned EO High Priority
FinalTiers_allHigh(tier, pf) ==
  CalculateField({x \in EOs : tier[x] = "Unassigned"}, tier, "High Priority")

\* the finalization without its second step, Unassigned to General
FinalTiers_noGeneral(tier, pf) ==
  CalculateField({x \in EOs : pf[x] = 1 /\ tier[x] = "Unassigned"}, tier, "High Priority")

FinalTiers(tier, pf) ==
  LET hp == CalculateField({x \in EOs : pf[x] = 1 /\ tier[x] = "Unassigned"}, tier,
                           "High Priority")
  IN  CalculateField({x \in EOs : pf[x] <= 0 /\ hp[x] = "Unassigned"}, hp, "General")

(***************************************************************************)
(* BuildPortfolio, lines 1807-1835: ECS_TIER of the sites.  eo_cs_stats    *)
(* has a row for every site with a joined EO; JoinField leaves the other   *)
(* sites NULL.                                                             *)
(***************************************************************************)
\* ECS_TIER from the statistic MAX instead of MIN
SiteTiers_max(geo, finalRank) ==
  LET eo_cs == SpatialJoin_byType(geo)
      joined(c) == {j[1] : j \in {k \in eo_cs : k[2] = c}}
  IN  Field([c \in Sites |->
               IF joined(c) = {} THEN None
               ELSE fn(MaxOf({finalRank[x] : x \in joined(c)}))])

SiteTiers(geo, finalRank) ==
  LET eo_cs == SpatialJoin_byType(geo)
      joined(c) == {j[1] : j \in {k \in eo_cs : k[2] = c}}
  IN  Field([c \in Sites |->
               IF joined(c) = {} THEN None
               ELSE fn(MinOf({finalRank[x] : x \in joined(c)}))])

(***************************************************************************)
(* BuildPortfolio, lines 1732-1864: tier finalization, the last portfolio  *)
(* update, FinalRANK, the reset of OVERRIDE -2, ECS_TIER, EEO_TIER and     *)
(* ESSENTIAL.  The step follows the last ranking factor, or an earlier one *)
(* when no slot is open: the tests len(slotDict) > 0 of the remaining      *)
(* factors (lines 1691-1723) then all fail.                                *)
(***************************************************************************)
BuildFinish ==
  /\ \/ pc = "Finalize"
     \/ /\ pc \in {"RANK_bmi", "RANK_nap", "RANK_csVal", "RANK_numPF", "RANK_eoArea"}
        /\ Cardinality(DOMAIN slotDict) = 0
  /\ \E tier \in {FinalTiers(TIER, PORTFOLIO)} :
       /\ TIER' = tier
       /\ \E res \in {updatePortfolio(Geo, tier, PORTFOLIO, OVERRIDE, CS_PORTFOLIO,
                                      sumTab, slotDict, TRUE, TRUE)} :
            /\ PORTFOLIO' = res.PORTFOLIO
            /\ OVERRIDE' = CalculateField({x \in EOs : res.OVERRIDE[x] = -2},
                                          res.OVERRIDE, 0)
            /\ CS_PORTFOLIO' = res.CS_PORTFOLIO
            /\ sumTab' = res.sumTab
  /\ FinalRANK' = [x \in EOs |-> calcFinalRank(TIER'[x])]
  /\ ECS_TIER' = SiteTiers(Geo, FinalRANK')
  /\ EEO_TIER' = [x \in EOs |-> fn(FinalRANK'[x])]
  /\ ESSENTIAL' = [x \in EOs |-> calcEssential(EEO_TIER'[x])]
  /\ CS_ESSENTIAL' = [c \in Sites |-> IF c \in tmpCS THEN calcEssential(ECS_TIER'[c])
                                      ELSE None]
  /\ pc' = "Done"
  /\ UNCHANGED << build, eoInput, eoScore, targetDict, slotDict, geometry, CS_OVERRIDE,
                  helper >>

Next ==
  \/ AttributeEOs
  \/ ScoreRankEO
  \/ ScoreRankYear
  \/ ScoreVital
  \/ BuildStart
  \/ FactorBMI
  \/ FactorNAP
  \/ FactorCsVal
  \/ FactorNumPF
  \/ FactorArea
  \/ BuildFinish

Spec == Init /\ [][Next]_vars

(***************************************************************************)
(* The builds that keep overrides the user entered: UPDATE keeps those of  *)
(* the EOs and of the sites, NEW_EO those of the sites, NEW_CS those of    *)
(* the EOs.  The input is the output of ScoreEOs with the field OVERRIDE.  *)
(***************************************************************************)
InitUpdate ==
  /\ pc = "AttributeEOs"
  /\ build \in {"UPDATE", "NEW_EO", "NEW_CS"}
  /\ InitEOs(UpdateEOs)
  /\ InitFields
  /\ inp = << >>
  /\ out = << >>

SpecUpdate == InitUpdate /\ [][Next]_vars

(***************************************************************************)
(* The EOs and the sites a result is stated about.                         *)
(***************************************************************************)
EOsOf(e) == {x \in EOs : ELCODE[x] = e}

Eligible == {x \in EOs : EXCLUSION[x] = "Keep"}

\* the EOs of a type of site c within the slop distance of c
JoinedTo(c) == {x \in EOs : << x, c >> \in near /\ SITE_TYPE_CS[c] \in SITE_TYPE_EO[x]}

TargetOf(e) == IF sumTab[e].TARGET = NULL THEN 0 ELSE sumTab[e].TARGET

(***************************************************************************)
(* C1: after BuildPortfolio, for every element the number of EOs with      *)
(* PORTFOLIO = 1 is at most TARGET plus the number of EOs with             *)
(* OVERRIDE = 1.                                                           *)
(***************************************************************************)
C1_TargetCompliance ==
  pc = "Done" =>
     \A e \in DOMAIN sumTab :
        Cardinality({x \in EOsOf(e) : PORTFOLIO[x] = 1})
          <= TargetOf(e) + Cardinality({x \in EOsOf(e) : OVERRIDE[x] = 1})

(***************************************************************************)
(* C2, as claimed: at the end of BuildPortfolio every EO has one of the    *)
(* five final tiers.                                                       *)
(***************************************************************************)
C2_EveryEOHasFinalTier ==
  pc = "Done" => \A x \in EOs : TIER[x] \in Tiers

(***************************************************************************)
(* C2, amended: at the end of BuildPortfolio every eligible EO (EXCLUSION  *)
(* = Keep) has one of the five final tiers, every other EO has no TIER     *)
(* (NULL), and no EO is Unassigned.                                        *)
(***************************************************************************)
C2_TierClosure ==
  pc = "Done" =>
     \A x \in EOs :
        /\ x \in Eligible => TIER[x] \in Tiers
        /\ x \notin Eligible => TIER[x] = None
        /\ TIER[x] # "Unassigned"

\* a build that ended with an EO that is not eligible, an EO finalized to
\* High Priority and an EO finalized to General
C2_Witness ==
  /\ pc = "Done"
  /\ \E x \in EOs : x \notin Eligible
  /\ \E x \in EOs : ChoiceRANK[x] = 5 /\ TIER[x] = "High Priority"
  /\ \E x \in EOs : ChoiceRANK[x] = 5 /\ TIER[x] = "General"

(***************************************************************************)
(* C3, as claimed: ECS_TIER of every site of the output is the tier name   *)
(* of the least FinalRANK among the EOs joined to it, and NA when no EO is *)
(* joined to it.  (NA is accepted as the name of rank 6.)                  *)
(***************************************************************************)
C3_SiteTierOrNA ==
  pc = "Done" =>
     \A c \in tmpCS :
        IF JoinedTo(c) = {} THEN ECS_TIER[c] = "NA"
        ELSE LET m == MinOf({FinalRANK[x] : x \in JoinedTo(c)})
             IN  IF m = 6 THEN ECS_TIER[c] = "NA"
                 ELSE ECS_TIER[c] \in Tiers /\ calcFinalRank(ECS_TIER[c]) = m

(***************************************************************************)
(* C3, amended: ECS_TIER of every site of the output is the tier name of   *)
(* the least FinalRANK among the EOs joined to it (same site type, within  *)
(* the slop distance), NA when that rank is 6 (only EOs that are not       *)
(* eligible are joined), and NULL when no EO is joined to the site.        *)
(***************************************************************************)
C3_SiteTier ==
  pc = "Done" =>
     \A c \in tmpCS :
        IF JoinedTo(c) = {} THEN ECS_TIER[c] = None
        ELSE LET m == MinOf({FinalRANK[x] : x \in JoinedTo(c)})
             IN  IF m = 6 THEN ECS_TIER[c] = "NA"
                 ELSE ECS_TIER[c] \in Tiers /\ calcFinalRank(ECS_TIER[c]) = m

\* a site with two joined EOs of different final ranks and an EO of another
\* type near it, and a site of the output without a joined EO
C3_Witness ==
  /\ pc = "Done"
  /\ \E c \in tmpCS : JoinedTo(c) = {} /\ ECS_TIER[c] = None
  /\ \E c \in tmpCS :
        /\ \E x, y \in JoinedTo(c) : FinalRANK[x] < FinalRANK[y]
        /\ \E z \in EOs \ JoinedTo(c) : << z, c >> \in near /\ FinalRANK[z] < 5

(***************************************************************************)
(* The case of C4: x is an eligible EO of a G3 element with 4 eligible     *)
(* EOs (TARGET 2) of which the ranking of ScoreEOs made exactly two High   *)
(* Priority (ChoiceRANK 4, or 3 for the one then made Vital); x is another *)
(* one and is joined to a site that is in the portfolio.                   *)
(***************************************************************************)
S6Third(x) ==
  /\ pc \in {"RANK_bmi", "RANK_nap", "RANK_csVal", "RANK_numPF", "RANK_eoArea",
              "Finalize", "Done"}
  /\ x \in Eligible
  /\ sumTab[ELCODE[x]].NEW_GRANK = "G3"
  /\ sumTab[ELCODE[x]].COUNT_ELIG_EO = 4
  /\ sumTab[ELCODE[x]].TARGET = 2
  /\ Cardinality({y \in EOsOf(ELCODE[x]) : ChoiceRANK[y] \in {3, 4}}) = 2
  /\ ChoiceRANK[x] \notin {3, 4}
  /\ \E c \in tmpCS : x \in JoinedTo(c) /\ CS_PORTFOLIO[c] = 1

(***************************************************************************)
(* C4, as claimed: in that case the third EO is marked OVERRIDE = -2       *)
(* during the build (it holds the mark when the tiers are finalized, the   *)
(* mark is reset only after that), is not in the portfolio and ends as     *)
(* General.                                                                *)
(***************************************************************************)
C4_ThirdMarkedDropped ==
  [][(pc # "Done" /\ pc' = "Done") =>
       \A x \in EOs : S6Third(x) =>
          /\ OVERRIDE[x] = -2
          /\ PORTFOLIO'[x] # 1
          /\ TIER'[x] = "General"]_vars

(***************************************************************************)
(* C4, amended: in that case the third EO was made General by updateTiers  *)
(* when the second slot was filled; throughout BuildPortfolio it is        *)
(* General, is not in the portfolio and is never marked OVERRIDE = -2.     *)
(***************************************************************************)
C4_ThirdGeneral ==
  \A x \in EOs : S6Third(x) =>
     /\ TIER[x] = "General"
     /\ PORTFOLIO[x] = 0
     /\ OVERRIDE[x] = 0

\* the case of C4 at the end of a build
C4_Witness ==
  /\ pc = "Done"
  /\ \E x \in EOs : S6Third(x) /\ TIER[x] = "General"

(***************************************************************************)
(* C6: an EO marked OVERRIDE = -2 is not added to the portfolio by any     *)
(* later step of the build, and no EO of the output has OVERRIDE = -2.     *)
(***************************************************************************)
C6_DroppedStaysOut ==
  [][\A x \in EOs :
        /\ OVERRIDE[x] = -2 => PORTFOLIO'[x] # 1
        /\ pc' = "Done" => OVERRIDE'[x] # -2]_vars

\* an EO is marked OVERRIDE = -2 while a ranking factor is still to come
\* and its element has an open slot
C6_Witness ==
  /\ pc \in {"RANK_nap", "RANK_csVal", "RANK_numPF", "RANK_eoArea"}
  /\ \E x \in EOs : OVERRIDE[x] = -2 /\ ELCODE[x] \in DOMAIN slotDict

(***************************************************************************)
(* C9: an element with exactly one eligible EO has INIT_TIER               *)
(* Irreplaceable; at the end of BuildPortfolio that EO has FinalRANK 1 and *)
(* ESSENTIAL "YES - Irreplaceable", and every site it is joined to has     *)
(* ECS_TIER Irreplaceable.                                                 *)
(***************************************************************************)
C9_SingleEO ==
  \A e \in DOMAIN sumTab : sumTab[e].COUNT_ELIG_EO = 1 =>
     /\ sumTab[e].INIT_TIER = "Irreplaceable"
     /\ pc = "Done" =>
          \A x \in EOsOf(e) \cap Eligible :
             /\ FinalRANK[x] = 1
             /\ ESSENTIAL[x] = "YES - Irreplaceable"
             /\ \A c \in tmpCS : x \in JoinedTo(c) => ECS_TIER[c] = "Irreplaceable"

\* the only eligible EO of an element, joined to a site that another EO of
\* a lower tier is joined to as well
C9_Witness ==
  /\ pc = "Done"
  /\ \E e \in DOMAIN sumTab, x \in Eligible, c \in tmpCS :
        /\ sumTab[e].COUNT_ELIG_EO = 1
        /\ ELCODE[x] = e
        /\ x \in JoinedTo(c)
        /\ \E y \in JoinedTo(c) : FinalRANK[y] > 1

(***************************************************************************)
(* C5: in a build that keeps overrides, an EO or site with OVERRIDE = -1   *)
(* has PORTFOLIO = 1 at no point of the build, and an EO or site of the    *)
(* output with OVERRIDE = 1 has PORTFOLIO = 1.                             *)
(***************************************************************************)
C5_OverridesKept ==
  /\ \A x \in EOs :
        /\ OVERRIDE[x] = -1 => PORTFOLIO[x] # 1
        /\ (pc = "Done" /\ OVERRIDE[x] = 1) => PORTFOLIO[x] = 1
  /\ \A c \in tmpCS :
        /\ CS_OVERRIDE[c] = -1 => CS_PORTFOLIO[c] # 1
        /\ (pc = "Done" /\ CS_OVERRIDE[c] = 1) => CS_PORTFOLIO[c] = 1

\* a build ended with a Vital EO kept out of the portfolio by OVERRIDE = -1
C5_Witness ==
  /\ pc = "Done"
  /\ \E x \in EOs : OVERRIDE[x] = -1 /\ TIER[x] = "Vital" /\ PORTFOLIO[x] = -1

(***************************************************************************)
(* addRanks and modRanks run on a table of their own.  The state of the    *)
(* workflow is not used: there is no EO table and every field is empty.    *)
(***************************************************************************)
workflow == << build, eoInput, eoScore, TIER, PORTFOLIO, OVERRIDE, eoFinal, sumTab,
               targetDict, slotDict, geometry, CS_PORTFOLIO, CS_OVERRIDE, csFinal >>

InitIdle ==
  /\ build = "NEW"
  /\ ELCODE = << >>
  /\ RNDGRNK = << >>
  /\ EORANK_NUM = << >>
  /\ InitFields

(***************************************************************************)
(* The tables ranked: at most MaxRows rows listed by group and sort value  *)
(* (SortedKeys lists the pairs of a group and a value in that order),      *)
(* sort values 0..MaxVal, either order, thresholds of 0..MaxThresh halves  *)
(* (ABS) or of as many times 50 percent (PER), values as they are or       *)
(* rounded to one digit less than they hold.                               *)
(***************************************************************************)
Threshold(threshtype, k) == << (IF threshtype = "PER" THEN 100 ELSE 1) * k, 2 >>

RECURSIVE SortedKeys(_, _)
SortedKeys(n, top) ==
  IF n = 0 THEN {<< >>}
  ELSE UNION {{Append(s, k) : k \in (IF n = 1 THEN 0 ELSE s[n - 1])..top} :
              s \in SortedKeys(n - 1, top)}

RankedRows(maxRows) ==
  UNION {{[rows |-> 1..n,
           grp |-> Field([x \in 1..n |-> ElementOrder[(s[x] \div (MaxVal + 1)) + 1]]),
           val |-> Field([x \in 1..n |-> s[x] % (MaxVal + 1)])] :
            s \in SortedKeys(n, Len(ElementOrder) * (MaxVal + 1) - 1)} :
         n \in 1..maxRows}

RankTables(maxRows) ==
  {[rows |-> r.rows, grp |-> r.grp, val |-> r.val, order |-> o,
    thresh |-> Threshold(tt, k), threshtype |-> tt, rounding |-> rd] :
     r \in RankedRows(maxRows), o \in {"ASCENDING", "DESCENDING"},
     tt \in {"ABS", "PER"}, k \in 0..MaxThresh, rd \in {NULL, AreaDecimals - 1}}

InitRanks ==
  /\ pc = "addRanks"
  /\ InitIdle
  /\ inp \in RankTables(MaxRows)
  /\ out = << >>

\* addRanks on the table inp: the field RANK, or the exception raised
RunAddRanks ==
  /\ pc = "addRanks"
  /\ out' = IF addRanksRaises(inp.rows, inp.grp, inp.val, inp.order, inp.thresh,
                              inp.threshtype, inp.rounding)
            THEN [raised |-> "ZeroDivisionError"]
            ELSE [raised |-> None,
                  RANK |-> addRanks(inp.rows, inp.grp, inp.val, inp.order, inp.thresh,
                                    inp.threshtype, inp.rounding)]
  /\ pc' = "modRanks"
  /\ UNCHANGED << workflow, inp >>

\* modRanks on the table with the field RANK: the field MODRANK
RunModRanks ==
  /\ pc = "modRanks"
  /\ out.raised = None
  /\ out' = [raised |-> None, RANK |-> out.RANK,
             MODRANK |-> modRanks(inp.rows, inp.grp, out.RANK)]
  /\ pc' = "ranked"
  /\ UNCHANGED << workflow, inp >>

NextRanks ==
  \/ RunAddRanks
  \/ RunModRanks

SpecRanks == InitRanks /\ [][NextRanks]_vars

(***************************************************************************)
(* C7: within every group (ELCODE), the ranks written by addRanks are      *)
(* exactly 1..k for some k: they start at 1 and leave no gap, whatever the *)
(* sort values, the sort order and the non-negative threshold.             *)
(***************************************************************************)
C7_RanksContiguous ==
  (pc \in {"modRanks", "ranked"} /\ out.raised = None) =>
     \A g \in {inp.grp[r] : r \in inp.rows} :
        LET ranks == {out.RANK[r] : r \in {x \in inp.rows : inp.grp[x] = g}}
        IN  ranks = 1..Cardinality(ranks)

\* addRanks has ranked two groups, one of them with more than one rank
C7_Witness ==
  /\ pc = "modRanks"
  /\ out.raised = None
  /\ Cardinality({inp.grp[r] : r \in inp.rows}) = 2
  /\ \E r \in inp.rows : out.RANK[r] = 2
  /\ \E x, y \in inp.rows : x # y /\ inp.grp[x] = inp.grp[y] /\ out.RANK[x] = out.RANK[y]

(***************************************************************************)
(* updateTiers and updateSlots run on a table of their own, for every      *)
(* order of its rows and every iteration order of the dictionary.  The     *)
(* table is a layer of Unassigned EOs outside the portfolio without        *)
(* overrides, ranked by addRanks as RANK_eo is; the dictionary gives every *)
(* element of the table, and possibly others, 1..MaxSlots open slots.      *)
(***************************************************************************)
OrderTables(maxRows) ==
  {t \in {[table |-> [rows |-> r.rows, grp |-> r.grp, val |-> r.val,
                      order |-> "ASCENDING", thresh |-> << 1, 2 >>,
                      threshtype |-> "ABS", rounding |-> NULL],
           dict |-> d] :
            r \in RankedRows(maxRows), d \in UNION {[S -> 1..MaxSlots] : S \in SUBSET Elements}} :
     {t.table.grp[r] : r \in t.table.rows} \subseteq DOMAIN t.dict}

InitOrder ==
  /\ pc = "updateTiers"
  /\ InitIdle
  /\ inp \in OrderTables(MaxRows)
  /\ out = << >>

\* the table with its rows in the order p: row r is the former row p[r]
Reordered(f, p) == Field([r \in DOMAIN f |-> f[p[r]]])

\* a field of the reordered table, read by the former row numbers
Restored(f, p) == Field([r \in DOMAIN f |-> f[CHOOSE q \in DOMAIN p : p[q] = r]])

RankOf(t) == addRanks(t.rows, t.grp, t.val, t.order, t.thresh, t.threshtype, t.rounding)

\* updateTiers for every order of the rows and of the keys of targetDict
RunUpdateTiers ==
  /\ pc = "updateTiers"
  /\ LET t == inp.table
         tier == [r \in t.rows |-> "Unassigned"]
         rank == RankOf(t)
     IN  out' = {LET res == updateTiers(t.rows, Reordered(t.grp, p), tier, inp.dict,
                                        Reordered(rank, p), keys)
                 IN  [TIER |-> Restored(res.TIER, p), targetDict |-> res.targetDict] :
                 p \in Orders(t.rows), keys \in Orders(DOMAIN inp.dict)}
  /\ pc' = "updateSlots"
  /\ UNCHANGED << workflow, inp >>

\* updateSlots for every order of the rows and of the keys of slotDict
RunUpdateSlots ==
  /\ pc = "updateSlots"
  /\ LET t == inp.table
         tier == [r \in t.rows |-> "Unassigned"]
         zero == [r \in t.rows |-> 0]
         rank == RankOf(t)
     IN  out' = {LET res == updateSlots(t.rows, Reordered(t.grp, p), tier, zero, zero,
                                        inp.dict, Reordered(rank, p), keys)
                 IN  [PORTFOLIO |-> Restored(res.PORTFOLIO, p),
                      OVERRIDE |-> Restored(res.OVERRIDE, p),
                      slotDict |-> res.slotDict] :
                 p \in Orders(t.rows), keys \in Orders(DOMAIN inp.dict)}
  /\ pc' = "updated"
  /\ UNCHANGED << workflow, inp >>

NextOrder ==
  \/ RunUpdateTiers
  \/ RunUpdateSlots

SpecOrder == InitOrder /\ [][NextOrder]_vars

RawGRanks == {"G1", "G2", "G3", "G4", "G5", "T1", "T2", "T3", "T4", "T5",
              "GH", "GNR", "GU", "TX", "GX", "", None}

InitTarget ==
  /\ pc = "target"
  /\ InitIdle
  /\ inp \in [RNDGRNK : RawGRanks, COUNT_ELIG_EO : (1..MaxCount) \cup {NULL}]
  /\ out = << >>

\* AttributeEOs, lines 1139-1156 and 1298-1330, on one summary row
RunTarget ==
  /\ pc = "target"
  /\ out' = [NEW_GRANK |-> reclass(inp.RNDGRNK),
             TARGET |-> target(reclass(inp.RNDGRNK), inp.COUNT_ELIG_EO),
             INIT_TIER |-> calcTier(inp.COUNT_ELIG_EO)]
  /\ pc' = "targeted"
  /\ UNCHANGED << workflow, inp >>

NextTarget == RunTarget

SpecTarget == InitTarget /\ [][NextTarget]_vars

(***************************************************************************)
(* C10: for an element with at least one eligible EO, TARGET is the lesser *)
(* of COUNT_ELIG_EO and the base of its normalized G-rank (10 for G1, 5    *)
(* for G2, 2 otherwise), and so never exceeds COUNT_ELIG_EO.               *)
(***************************************************************************)
C10_TargetCapped ==
  (pc = "targeted" /\ inp.COUNT_ELIG_EO # NULL) =>
     LET base == CASE out.NEW_GRANK = "G1" -> 10
                   [] out.NEW_GRANK = "G2" -> 5
                   [] OTHER -> 2
     IN  /\ out.TARGET = MinOf({base, inp.COUNT_ELIG_EO})
         /\ out.TARGET <= inp.COUNT_ELIG_EO

\* a T1 element with more than ten eligible EOs, held to the base, and
\* (in another run) one with fewer, held to its count
C10_Witness ==
  /\ pc = "targeted"
  /\ inp.RNDGRNK = "T1"
  /\ inp.COUNT_ELIG_EO > 10
  /\ out.TARGET = 10

(***************************************************************************)
(* Site building blocks (CreateConSites.py).  A procedural feature (PF)    *)
(* carries RULE, a text, and BUFFER, which is NULL, a number or a text; a  *)
(* BUFFER is held as << kind, value >> with kind "null", "num" (a number), *)
(* "str" (the text of a number) or "text" (a text that is no number).      *)
(***************************************************************************)
MaxPFs == 2

IntStrings == << "0", "1", "2", "3", "4", "5", "6", "7", "8", "9", "10", "11", "12",
                 "13", "14", "15" >>

\* the values of RULE and of BUFFER, in the order the PFs are listed by
PFRules == IntStrings \o << "-1", "AHZ", "X", None >>

PFBuffers == << << "null", 0 >>, << "num", 0 >>, << "str", 0 >>, << "num", 150 >>,
                << "str", 500 >>, << "num", 75 >>, << "text", 0 >> >>

\* int(RuleString) raises ValueError or TypeError
intRaises(RuleString) ==
  RuleString # "-1" /\ \A i \in 1..Len(IntStrings) : IntStrings[i] # RuleString

\* int(RuleString) of the text of an integer
int(RuleString) ==
  IF RuleString = "-1" THEN 0 - 1 ELSE IndexOf(IntStrings, RuleString) - 1

\* PrepProcFeats, codeblock1
string2int(RuleString) ==
  IF intRaises(RuleString)
  THEN IF RuleString = "AHZ" THEN 0 - 1 ELSE 0
  ELSE int(RuleString)

\* float(origBuff) raises TypeError (None) or ValueError (no number)
floatRaises(origBuff) == origBuff[1] \in {"null", "text"}

float(origBuff) == origBuff[2]

\* not origBuff: None and the number zero are false
falsy(origBuff) == origBuff[1] = "null" \/ (origBuff[1] = "num" /\ origBuff[2] = 0)

\* origBuff in (...): the numbers of values and their texts
inValues(origBuff, values) == origBuff[1] \in {"num", "str"} /\ origBuff[2] \in values

\* PrepProcFeats, codeblock2: string2float raises an exception
string2floatRaises(RuleInteger, origBuff) ==
  \/ RuleInteger = 0 - 1 /\ ~falsy(origBuff) /\ floatRaises(origBuff)
  \/ RuleInteger = 13 /\ floatRaises(origBuff)

\* PrepProcFeats, lines 1214-1243: the buffer before the test of a zero BUFFER
standardBuffer(RuleInteger, origBuff) ==
  CASE RuleInteger = 0 - 1 -> IF falsy(origBuff) THEN 0 ELSE float(origBuff)
    [] RuleInteger = 13 -> float(origBuff)
    [] RuleInteger = 10 ->
         IF inValues(origBuff, {0, 150, 500}) THEN float(origBuff) ELSE NULL
    [] RuleInteger = 1 -> 150
    [] RuleInteger \in {2, 3, 4, 8, 14} -> 250
    [] RuleInteger \in {11, 12} -> 405
    [] RuleInteger = 15 -> 0
    [] OTHER -> NULL

\* string2float without the test of a zero BUFFER at its end
string2float_noZeroOverride(RuleInteger, origBuff) ==
  standardBuffer(RuleInteger, origBuff)

\* PrepProcFeats, codeblock2: the value string2float returns
string2float(RuleInteger, origBuff) ==
  IF inValues(origBuff, {0}) THEN 0 ELSE standardBuffer(RuleInteger, origBuff)

\* string2float adds the warning "Buffer distance is invalid for rule 10"
string2floatWarns(RuleInteger, origBuff) ==
  RuleInteger = 10 /\ ~inValues(origBuff, {0, 150, 500})

(***************************************************************************)
(* CreateSBBs on a table of PFs of its own.  out holds the copy tmp_PF     *)
(* with intRule and fltBuffer, the PFs string2float warned about, the SBB  *)
(* feature class out_SBB (a row names its PF and its shape: the buffer of  *)
(* the PF, the PF itself, or the wetland shape), sbbWarnings, the log, and *)
(* the wetland rules still to run with the outcome of those already run.   *)
(* An ArcGIS tool can fail: a try block runs through or raises.            *)
(***************************************************************************)
PFTables(n) ==
  {Field([pf \in 1..n |->
            [RULE |-> PFRules[(s[pf] \div Len(PFBuffers)) + 1],
             BUFFER |-> PFBuffers[(s[pf] % Len(PFBuffers)) + 1]]]) :
     s \in SortedKeys(n, Len(PFRules) * Len(PFBuffers) - 1)}

InitSBB ==
  /\ pc = "PrepProcFeats"
  /\ InitIdle
  /\ \E n \in 1..MaxPFs : inp \in PFTables(n)
  /\ out = << >>

PFs == DOMAIN inp

NoMsg == [text |-> None, list |-> << >>]

\* PrepProcFeats: intRule and fltBuffer, or quit() when CalculateField fails
PrepProcFeats ==
  /\ pc = "PrepProcFeats"
  /\ LET intRule == [pf \in PFs |-> string2int(inp[pf].RULE)]
     IN  IF \E pf \in PFs : string2floatRaises(intRule[pf], inp[pf].BUFFER)
         THEN /\ pc' = "quit"
              /\ out' = [log |-> << [text |-> "Unable to complete intitial pre-processing",
                                     list |-> << >>] >>]
         ELSE /\ pc' = "SimpleBuffer"
              /\ out' = [intRule |-> Field(intRule),
                         fltBuffer |-> Field([pf \in PFs |->
                                         string2float(intRule[pf], inp[pf].BUFFER)]),
                         warned |-> {pf \in PFs :
                                       string2floatWarns(intRule[pf], inp[pf].BUFFER)},
                         out_SBB |-> << >>,
                         sbbWarnings |-> << >>,
                         log |-> << >>,
                         rules |-> << 5, 6, 7, 9 >>,
                         wetland |-> << >>]
  /\ UNCHANGED << workflow, inp >>

\* arcpy.management.Append of the rows sel, each with the shape given
AppendRows(out_SBB, sel, shape) ==
  LET order == SortValues(sel, "ASCENDING")
  IN  out_SBB \o [i \in 1..Len(order) |-> [PF |-> order[i], shape |-> shape[order[i]]]]

\* the zero-buffer selection without its test of fltBuffer
NoBufferQuery_anyBuffer(intRule, fltBuffer) ==
  {pf \in DOMAIN intRule : intRule[pf] \in {0 - 1, 1, 2, 3, 4, 8, 10, 11, 12, 13, 14, 15}}

\* CreateSBBs, line 1482: selQry of the no-buffer SBBs
NoBufferQuery(intRule, fltBuffer) ==
  {pf \in DOMAIN intRule :
     /\ intRule[pf] \in {0 - 1, 1, 2, 3, 4, 8, 10, 11, 12, 13, 14, 15}
     /\ fltBuffer[pf] = 0}

\* the simple buffer selection where a NULL fltBuffer counts as not zero
SimpleBufferQuery_nullPasses(intRule, fltBuffer) ==
  {pf \in DOMAIN intRule :
     /\ intRule[pf] \in {0 - 1, 1, 2, 3, 4, 8, 10, 11, 12, 13, 14}
     /\ fltBuffer[pf] # 0}

\* CreateSBBs, line 1460: selQry of the simple buffer SBBs (NULL <> 0 selects no row)
SimpleBufferQuery(intRule, fltBuffer) ==
  {pf \in DOMAIN intRule :
     /\ intRule[pf] \in {0 - 1, 1, 2, 3, 4, 8, 10, 11, 12, 13, 14}
     /\ fltBuffer[pf] # NULL
     /\ fltBuffer[pf] # 0}

\* CreateSBBs, lines 1459-1479
SimpleBufferSBBs ==
  /\ pc = "SimpleBuffer"
  /\ LET sel == SimpleBufferQuery(out.intRule, out.fltBuffer)
     IN  \E ok \in BOOLEAN :
           /\ sel = {} => ok
           /\ out' = IF ok
                     THEN [out EXCEPT !.out_SBB = AppendRows(@, sel, [pf \in sel |-> "buffer"])]
                     ELSE [out EXCEPT !.sbbWarnings = Append(@,
                             [text |-> "There was a problem creating the simple buffer SBBS",
                              list |-> << >>])]
  /\ pc' = "NoBuffer"
  /\ UNCHANGED << workflow, inp >>

\* CreateSBBs, lines 1481-1497
NoBufferSBBs ==
  /\ pc = "NoBuffer"
  /\ LET sel == NoBufferQuery(out.intRule, out.fltBuffer)
     IN  \E ok \in BOOLEAN :
           /\ sel = {} => ok
           /\ out' = IF ok
                     THEN [out EXCEPT !.out_SBB = AppendRows(@, sel, [pf \in sel |-> "PF"])]
                     ELSE [out EXCEPT !.sbbWarnings = Append(@,
                             [text |-> "There was a problem creating the no-buffer SBBS",
                              list |-> << >>])]
  /\ pc' = "Wetland"
  /\ UNCHANGED << workflow, inp >>

\* CreateWetlandSBB where the failure of a PF ends the loop over the PFs
CreateWetlandSBB_stopsAtFailure(sel, failed) ==
  LET first == IF failed = {} THEN {} ELSE {MinOf(failed)}
      last == IF failed = {} THEN MaxOf(sel) ELSE MinOf(failed)
  IN  [myFailList |-> SortValues(first, "ASCENDING"),
       shape |-> [pf \in {x \in sel : x <= last} |->
                    IF pf \in first THEN "PF" ELSE "wetland"],
       log |-> IF failed = {} THEN << >>
               ELSE << [text |-> "Processing failed for the following features",
                        list |-> SortValues(first, "ASCENDING")] >>]

(***************************************************************************)
(* CreateWetlandSBB, lines 1292-1423, on the PFs sel of which those in     *)
(* failed raise an exception: the update cursor replaces the shape of a PF *)
(* by its SBB, a PF that fails keeps its shape and joins myFailList, the   *)
(* list is logged after the loop and every row of the layer is appended.   *)
(***************************************************************************)
CreateWetlandSBB(sel, failed) ==
  [myFailList |-> SortValues(failed, "ASCENDING"),
   shape |-> [pf \in sel |-> IF pf \in failed THEN "PF" ELSE "wetland"],
   log |-> IF failed = {} THEN << >>
           ELSE << [text |-> "Processing failed for the following features",
                    list |-> SortValues(failed, "ASCENDING")] >>]

(***************************************************************************)
(* CreateSBBs, lines 1499-1524: one wetland rule.  warnMsgs, the warnings  *)
(* of the last tool run, may be empty or not.                              *)
(***************************************************************************)
WetlandSBBs ==
  /\ pc = "Wetland"
  /\ out.rules # << >>
  /\ LET r == Head(out.rules)
         sel == {pf \in PFs : out.intRule[pf] = r}
     IN  \E ok \in BOOLEAN, warnMsgs \in BOOLEAN, failed \in SUBSET sel :
           /\ sel = {} => ok /\ ~warnMsgs
           /\ ~ok => failed = {} /\ ~warnMsgs
           /\ LET res == CreateWetlandSBB(sel, failed)
                  msg == IF failed = {} THEN NoMsg ELSE res.log[1]
              IN  out' =
                    IF sel = {} THEN [out EXCEPT !.rules = Tail(@)]
                    ELSE IF ~ok
                    THEN [out EXCEPT
                            !.rules = Tail(@),
                            !.wetland = @ @@ (r :> [ok |-> FALSE, sel |-> sel,
                                                    myFailList |-> << >>]),
                            !.sbbWarnings = Append(@,
                               [text |-> "There was a problem creating the Rule features",
                                list |-> << r >>])]
                    ELSE [out EXCEPT
                            !.rules = Tail(@),
                            !.wetland = @ @@ (r :> [ok |-> TRUE, sel |-> sel,
                                                    myFailList |-> res.myFailList]),
                            !.log = @ \o res.log,
                            !.out_SBB = AppendRows(@, DOMAIN res.shape, res.shape),
                            !.sbbWarnings = IF warnMsgs THEN Append(@, msg) ELSE @]
  /\ pc' = "Wetland"
  /\ UNCHANGED << workflow, inp >>

\* CreateSBBs, lines 1526-1537: the warnings are printed and out_SBB returned
FinishSBBs ==
  /\ pc = "Wetland"
  /\ out.rules = << >>
  /\ out' = [out EXCEPT !.log = @ \o out.sbbWarnings]
  /\ pc' = "SBBsDone"
  /\ UNCHANGED << workflow, inp >>

NextSBB ==
  \/ PrepProcFeats
  \/ SimpleBufferSBBs
  \/ NoBufferSBBs
  \/ WetlandSBBs
  \/ FinishSBBs

SpecSBB == InitSBB /\ [][NextSBB]_vars

\* the rows of out_SBB made from the PF pf
SBBsOf(pf) == {i \in 1..Len(out.out_SBB) : out.out_SBB[i].PF = pf}

Prepped == pc \in {"SimpleBuffer", "NoBuffer", "Wetland", "SBBsDone"}

(***************************************************************************)
(* C11: in the output of CreateSBBs every PF has at most one SBB and every *)
(* SBB is made from one PF of the input: the simple-buffer, zero-buffer    *)
(* and wetland selections are disjoint, whatever RULE and BUFFER are.      *)
(***************************************************************************)
C11_OneSBBPerPF ==
  Prepped =>
     /\ \A pf \in PFs : Cardinality(SBBsOf(pf)) <= 1
     /\ \A i \in 1..Len(out.out_SBB) : out.out_SBB[i].PF \in PFs
     /\ SimpleBufferQuery(out.intRule, out.fltBuffer)
          \cap NoBufferQuery(out.intRule, out.fltBuffer) = {}
     /\ \A pf \in PFs : out.intRule[pf] \in {5, 6, 7, 9} =>
          pf \notin SimpleBufferQuery(out.intRule, out.fltBuffer)
                      \cup NoBufferQuery(out.intRule, out.fltBuffer)

\* a wetland PF with a zero BUFFER and a PF of a simple rule with a zero
\* BUFFER, each with its one SBB
C11_Witness ==
  /\ pc = "SBBsDone"
  /\ \E p, q \in PFs :
       /\ out.intRule[p] = 5 /\ out.fltBuffer[p] = 0
       /\ out.intRule[q] = 1 /\ out.fltBuffer[q] = 0
       /\ \E i \in SBBsOf(p) : out.out_SBB[i].shape = "wetland"
       /\ \E i \in SBBsOf(q) : out.out_SBB[i].shape = "PF"

\* the PFs for which float(origBuff) is reached and raises
BadBuffer(pf) ==
  \/ inp[pf].RULE = "13" /\ inp[pf].BUFFER[1] \in {"null", "text"}
  \/ inp[pf].RULE \in {"AHZ", "-1"} /\ inp[pf].BUFFER[1] = "text"

\* the rule table of the SBB builder for the PF pf
RuleTable(pf) ==
  LET RULE == inp[pf].RULE
      BUFFER == inp[pf].BUFFER
      zero == BUFFER[1] \in {"num", "str"} /\ BUFFER[2] = 0
      rule == out.intRule[pf]
      buffer == out.fltBuffer[pf]
  IN  /\ (\E i \in 1..Len(IntStrings) : IntStrings[i] = RULE) =>
            IntStrings[rule + 1] = RULE
      /\ RULE = "-1" => rule = 0 - 1
      /\ RULE = "AHZ" => rule = 0 - 1
      /\ RULE \in {"X", None} => rule = 0
      /\ zero => buffer = 0
      /\ ~zero =>
           /\ rule = 1 => buffer = 150
           /\ rule \in {2, 3, 4, 8, 14} => buffer = 250
           /\ rule \in {11, 12} => buffer = 405
           /\ rule = 15 => buffer = 0
           /\ rule = 13 => buffer = (IF BUFFER[1] = "null" THEN NULL ELSE BUFFER[2])
           /\ rule = 0 - 1 => buffer = (IF BUFFER[1] = "null" THEN 0 ELSE BUFFER[2])
           /\ rule \in {5, 6, 7, 9} => buffer = NULL

InvalidRule10(pf) ==
  /\ inp[pf].RULE = "10"
  /\ ~(inp[pf].BUFFER[1] \in {"num", "str"} /\ inp[pf].BUFFER[2] \in {0, 150, 500})

Rule10Skipped(pf) ==
  /\ out.fltBuffer[pf] = NULL
  /\ pf \in out.warned
  /\ pf \notin SimpleBufferQuery(out.intRule, out.fltBuffer)
  /\ pf \notin NoBufferQuery(out.intRule, out.fltBuffer)

(***************************************************************************)
(* C13 as claimed: a PF of rule 10 with a BUFFER outside {0, 150, 500}     *)
(* gets a null buffer and a warning, is skipped by the simple-buffer and   *)
(* the zero-buffer paths, and is in the output with intRule = 0.           *)
(***************************************************************************)
C13_InvalidRule10IsRule0 ==
  Prepped => \A pf \in PFs :
     InvalidRule10(pf) => (Rule10Skipped(pf) /\ out.intRule[pf] = 0)

(***************************************************************************)
(* C13: a PF of rule 10 with a BUFFER outside {0, 150, 500} gets a null    *)
(* buffer and a warning, is skipped by the simple-buffer and the           *)
(* zero-buffer paths and so gets no SBB, and is in the prepared copy of    *)
(* the PFs with intRule = 10.                                              *)
(***************************************************************************)
C13_InvalidRule10Skipped ==
  Prepped => \A pf \in PFs :
     InvalidRule10(pf) =>
        (Rule10Skipped(pf) /\ out.intRule[pf] = 10 /\ SBBsOf(pf) = {})

\* a rule 10 PF with BUFFER 75 beside a rule 10 PF with BUFFER 150 that is buffered
C13_Witness ==
  /\ pc = "SBBsDone"
  /\ \E p, q \in PFs :
       /\ InvalidRule10(p) /\ inp[p].BUFFER = << "num", 75 >>
       /\ inp[q].RULE = "10" /\ inp[q].BUFFER = << "num", 150 >>
       /\ \E i \in SBBsOf(q) : out.out_SBB[i].shape = "buffer"

(***************************************************************************)
(* CreateConSites, lines 1750-2006: the loop over the ProtoSites, run on   *)
(* its own.  inp gives, for every ProtoSite, the number of polygons of its *)
(* final boundary finBnd; out holds the counter, the ProtoSites worked on, *)
(* those whose processing raised an exception, the feature class           *)
(* out_ConSites (a row names its ProtoSite and its part) and the log.      *)
(***************************************************************************)
MaxPS == 3

MaxParts == 2

InitSites ==
  /\ pc = "ProtoSites"
  /\ InitIdle
  /\ \E numPS \in 1..MaxPS : inp \in [1..numPS -> 0..MaxParts]
  /\ out = [counter |-> 1, worked |-> {}, failed |-> {}, out_ConSites |-> << >>,
            log |-> << >>]

\* the body of the loop with the try statement around the loop, not inside it
ProtoSiteBody_raiseEndsLoop(st, numPS, parts, raises) ==
  IF raises
  THEN [st EXCEPT !.worked = @ \cup {st.counter},
                  !.failed = @ \cup {st.counter},
                  !.log = Append(@, [text |-> "PYTHON ERRORS", PS |-> st.counter]),
                  !.counter = numPS + 1]
  ELSE [st EXCEPT !.worked = @ \cup {st.counter},
                  !.out_ConSites = @ \o [j \in 1..parts |-> [PS |-> st.counter, part |-> j]],
                  !.log = Append(@, [text |-> "Processing complete", PS |-> st.counter]),
                  !.counter = @ + 1]

(***************************************************************************)
(* Lines 1755-2006, the body of the loop for one ProtoSite.  The boundary  *)
(* is appended to out_ConSites by the last statement of the try block      *)
(* (line 1985); an exception raised by any statement of the block is       *)
(* caught and logged, and the finally clause moves the counter on.         *)
(***************************************************************************)
ProtoSiteBody(st, numPS, parts, raises) ==
  IF raises
  THEN [st EXCEPT !.worked = @ \cup {st.counter},
                  !.failed = @ \cup {st.counter},
                  !.log = Append(@, [text |-> "PYTHON ERRORS", PS |-> st.counter]),
                  !.counter = @ + 1]
  ELSE [st EXCEPT !.worked = @ \cup {st.counter},
                  !.out_ConSites = @ \o [j \in 1..parts |-> [PS |-> st.counter, part |-> j]],
                  !.log = Append(@, [text |-> "Processing complete", PS |-> st.counter]),
                  !.counter = @ + 1]

\* one pass of the loop over the search cursor of the ProtoSites
ProcessProtoSite ==
  /\ pc = "ProtoSites"
  /\ out.counter <= Len(inp)
  /\ \E raises \in BOOLEAN :
       out' = ProtoSiteBody(out, Len(inp), inp[out.counter], raises)
  /\ pc' = "ProtoSites"
  /\ UNCHANGED << workflow, inp >>

\* lines 2008-2010: the cursor is exhausted
FinishSites ==
  /\ pc = "ProtoSites"
  /\ out.counter > Len(inp)
  /\ pc' = "SitesDone"
  /\ UNCHANGED << workflow, inp, out >>

NextSites ==
  \/ ProcessProtoSite
  \/ FinishSites

SpecSites == InitSites /\ [][NextSites]_vars

\* the rows of out_ConSites made from the ProtoSite ps
SitesOf(ps) == {i \in 1..Len(out.out_ConSites) : out.out_ConSites[i].PS = ps}

(***************************************************************************)
(* C14: when the processing of a ProtoSite raises an exception, the        *)
(* exception is caught and logged and the ProtoSite gives no Site; every   *)
(* ProtoSite is worked on all the same, the others give their Sites, and   *)
(* no pass of the loop changes a Site appended before.                     *)
(***************************************************************************)
C14_ProtoSiteFailure ==
  /\ [](pc = "SitesDone" =>
          /\ out.worked = DOMAIN inp
          /\ \A ps \in out.failed :
               /\ SitesOf(ps) = {}
               /\ \E i \in 1..Len(out.log) :
                    out.log[i] = [text |-> "PYTHON ERRORS", PS |-> ps]
          /\ \A ps \in DOMAIN inp \ out.failed : Cardinality(SitesOf(ps)) = inp[ps])
  /\ [][pc = "ProtoSites" =>
          SubSeq(out'.out_ConSites, 1, Len(out.out_ConSites)) = out.out_ConSites]_vars

\* three ProtoSites of which the second fails, between two that give Sites
C14_Witness ==
  /\ pc = "SitesDone"
  /\ Len(inp) = 3
  /\ out.failed = {2}
  /\ SitesOf(1) # {} /\ SitesOf(3) # {}

(***************************************************************************)
(* CleanFeatures (Helper.py), run on its own.  inp gives the number of     *)
(* parts of every input feature, 0 for a feature with null geometry; out   *)
(* holds the input features as they stand, the counter, the number of      *)
(* explode attempts, of failed attempts and of geometry repairs, the       *)
(* messages, and the output features with the way they were written.  A    *)
(* tool call succeeds or raises; an exception raised by RepairGeometry or  *)
(* CopyFeatures inside the except clause leaves the function.              *)
(***************************************************************************)
MaxFeats == 3

MaxTries == 10

InitClean ==
  /\ pc = "CleanFeatures"
  /\ InitIdle
  /\ \E n \in 1..MaxFeats : inp \in [1..n -> 0..MaxParts]
  /\ out = [inFeats |-> inp, counter |-> 1, attempts |-> 0, failures |-> 0, repairs |-> 0, log |-> << >>,
            written |-> "no", outFeats |-> {}]

\* MultipartToSinglepart: one output feature for every part
Exploded(feats) == UNION {{[feat |-> f, part |-> p] : p \in 1..feats[f]} : f \in DOMAIN feats}

\* RepairGeometry with DELETE_NULL: the features with null geometry are deleted
RepairGeometry(feats) == Field([f \in {g \in DOMAIN feats : feats[g] > 0} |-> feats[f]])

\* CopyFeatures: the features as they are
Copied(feats) == {[feat |-> f, parts |-> feats[f]] : f \in DOMAIN feats}

\* one pass of the loop that counts on after a successful explode
CleanAttempt_countsOn(st, outcome) ==
  CASE outcome = "explodes" ->
         [st EXCEPT !.attempts = @ + 1, !.written = "exploded",
                    !.outFeats = Exploded(st.inFeats), !.counter = @ + 1]
    [] outcome = "fails" ->
         LET st1 == [st EXCEPT !.inFeats = RepairGeometry(@), !.attempts = @ + 1, !.failures = @ + 1, !.repairs = @ + 1,
                               !.log = @ \o << "Polygon explosion failed.",
                                               "Trying to repair geometry" >>,
                               !.counter = @ + 1]
         IN  IF st1.counter = MaxTries + 1
             THEN [st1 EXCEPT !.log = Append(@, "Polygon explosion problem could not be resolved.  Copying features."),
                              !.written = "copy", !.outFeats = Copied(st1.inFeats)]
             ELSE st1

(***************************************************************************)
(* Lines 131-147, one pass of the while loop: the explode succeeds and the *)
(* counter is set past the limit, or it fails, the geometry is repaired    *)
(* and the counter moves on, and at the limit the features are copied.     *)
(***************************************************************************)
CleanAttempt(st, outcome) ==
  CASE outcome = "explodes" ->
         [st EXCEPT !.attempts = @ + 1, !.written = "exploded",
                    !.outFeats = Exploded(st.inFeats), !.counter = MaxTries + 1]
    [] outcome = "fails" ->
         LET st1 == [st EXCEPT !.inFeats = RepairGeometry(@), !.attempts = @ + 1, !.failures = @ + 1, !.repairs = @ + 1,
                               !.log = @ \o << "Polygon explosion failed.",
                                               "Trying to repair geometry" >>,
                               !.counter = @ + 1]
         IN  IF st1.counter = MaxTries + 1
             THEN [st1 EXCEPT !.log = Append(@, "Polygon explosion problem could not be resolved.  Copying features."),
                              !.written = "copy", !.outFeats = Copied(st1.inFeats)]
             ELSE st1

\* a pass of the loop that runs through
ExplodeAttempt ==
  /\ pc = "CleanFeatures"
  /\ out.counter <= MaxTries
  /\ \E outcome \in {"explodes", "fails"} : out' = CleanAttempt(out, outcome)
  /\ pc' = "CleanFeatures"
  /\ UNCHANGED << workflow, inp >>

\* a pass of the loop in which RepairGeometry, or CopyFeatures at the limit, raises
RepairRaises ==
  /\ pc = "CleanFeatures"
  /\ out.counter <= MaxTries
  /\ \E tool \in {"RepairGeometry", "CopyFeatures"} :
       /\ tool = "CopyFeatures" => out.counter = MaxTries
       /\ out' = [out EXCEPT !.attempts = @ + 1, !.failures = @ + 1,
                             !.repairs = IF tool = "CopyFeatures" THEN @ + 1 ELSE @,
                             !.inFeats = IF tool = "CopyFeatures" THEN RepairGeometry(@) ELSE @,
                             !.log = @ \o << "Polygon explosion failed.",
                                             "Trying to repair geometry" >>]
  /\ pc' = "raised"
  /\ UNCHANGED << workflow, inp >>

\* line 149: the loop has ended and outFeats is returned
ReturnClean ==
  /\ pc = "CleanFeatures"
  /\ out.counter > MaxTries
  /\ pc' = "cleaned"
  /\ UNCHANGED << workflow, inp, out >>

NextClean ==
  \/ ExplodeAttempt
  \/ RepairRaises
  \/ ReturnClean

SpecClean == InitClean /\ [][NextClean]_vars /\ WF_vars(NextClean)

FailMsg(list) == [text |-> "Processing failed for the following features", list |-> list]

\* the PFs of the wetland rule r that CreateWetlandSBB has worked through without failure
WetlandDone(r) ==
  {pf \in out.wetland[r].sel : \A i \in 1..Len(out.wetland[r].myFailList) :
                                  out.wetland[r].myFailList[i] # pf}

(***************************************************************************)
(* C16: when the wetland SBB of a PF fails, the SFID of the PF is in the   *)
(* failure list of its rule, every other PF of the rule and the PFs of the *)
(* rules after it still get their wetland SBBs, and the step that works    *)
(* through the PFs of the rule adds the full failure list to the log once, *)
(* after all of them.                                                      *)
(***************************************************************************)
C16_WetlandFailures ==
  /\ [](Prepped => \A r \in DOMAIN out.wetland : out.wetland[r].ok =>
          /\ \A pf \in out.wetland[r].sel \ WetlandDone(r) :
               \A i \in SBBsOf(pf) : out.out_SBB[i].shape = "PF"
          /\ \A pf \in WetlandDone(r) :
               /\ Cardinality(SBBsOf(pf)) = 1
               /\ \A i \in SBBsOf(pf) : out.out_SBB[i].shape = "wetland")
  /\ [](pc = "SBBsDone" =>
          \A pf \in PFs : out.intRule[pf] \in {5, 6, 7, 9} =>
            /\ out.intRule[pf] \in DOMAIN out.wetland
            /\ pf \in out.wetland[out.intRule[pf]].sel)
  /\ [][pc = "Wetland" /\ out.rules # << >> =>
          LET r == Head(out.rules)
          IN  /\ out'.rules = Tail(out.rules)
              /\ (r \in DOMAIN out'.wetland /\ out'.wetland[r].ok) =>
                   LET list == out'.wetland[r].myFailList
                   IN  /\ \A i \in 1..Len(list) : list[i] \in out'.wetland[r].sel
                       /\ \A i, j \in 1..Len(list) : i < j => list[i] < list[j]
                       /\ out'.log = IF list = << >> THEN out.log
                                     ELSE Append(out.log, FailMsg(list))]_vars

\* of two PFs of rule 5 the first has failed and the second has its wetland SBB
C16_Witness ==
  /\ pc = "SBBsDone"
  /\ 5 \in DOMAIN out.wetland
  /\ out.wetland[5].sel = {1, 2}
  /\ out.wetland[5].myFailList = << 1 >>
  /\ \E i \in SBBsOf(2) : out.out_SBB[i].shape = "wetland"
  /\ \E k \in 1..Len(out.log) : out.log[k] = FailMsg(<< 1 >>)

(***************************************************************************)
(* CullFrags (lines 983-996, called at 1913 and 1943 with searchDist) only *)
(* keeps the fragments of a ProtoSite that touch a PF: every boundary j    *)
(* that the ProtoSite ps gives holds a PF, named << ps, j >> here, and     *)
(* the PF is covered by the rows of out_ConSites made of that boundary.    *)
(***************************************************************************)
CullFrags(ps) == {<< ps, j >> : j \in 1..inp[ps]}

CoveredBy(pf) ==
  {i \in 1..Len(out.out_ConSites) :
     out.out_ConSites[i] = [PS |-> pf[1], part |-> pf[2]]}

(***************************************************************************)
(* C17: after the Site Assembler has run, every PF that takes part in an   *)
(* SBB and is kept by the cull lies in exactly one Site: none is left      *)
(* outside all the Sites of the output and none is covered by two.         *)
(***************************************************************************)
C17_EveryPFInOneSite ==
  pc = "SitesDone" =>
    \A ps \in DOMAIN inp : \A pf \in CullFrags(ps) : Cardinality(CoveredBy(pf)) = 1

\* the rows of the element e in the table of the tier and slot updates
RowsOf(e) == {x \in inp.table.rows : inp.table.grp[x] = e}

\* the number of rows of e with a rank of at most r
UpTo(e, r) == Cardinality({x \in RowsOf(e) : RankOf(inp.table)[x] <= r})

\* the ranks of e at which the rows ranked that or better reach its open slots
Reaching(e) == {r \in {RankOf(inp.table)[x] : x \in RowsOf(e)} : UpTo(e, r) >= inp.dict[e]}

(***************************************************************************)
(* C18: for an element with open slots, updateTiers takes the smallest     *)
(* rank r at which the Unassigned EOs ranked r or better reach the open    *)
(* slots.  When they are exactly as many as the slots they become High     *)
(* Priority, the EOs ranked after r become General and no slot stays open. *)
(* When they are more, the EOs ranked before r become High Priority, the   *)
(* EOs tied at r stay Unassigned, the EOs ranked after r become General    *)
(* and the slots the tied EOs did not fit stay open.  When no rank reaches *)
(* the slots every EO becomes High Priority.  The EOs of an element made   *)
(* High Priority are never more than its open slots.                       *)
(***************************************************************************)
C18_UpdateTiers ==
  pc = "updateSlots" =>
    \A res \in out : \A e \in DOMAIN inp.dict :
      LET rank == RankOf(inp.table)
          slots == inp.dict[e]
          hp == {x \in RowsOf(e) : res.TIER[x] = "High Priority"}
          open == IF e \in DOMAIN res.targetDict THEN res.targetDict[e] ELSE 0
      IN  /\ Cardinality(hp) <= slots
          /\ open = slots - Cardinality(hp)
          /\ Reaching(e) = {} => hp = RowsOf(e)
          /\ Reaching(e) # {} =>
               LET r == MinOf(Reaching(e))
               IN  /\ \A x \in RowsOf(e) : rank[x] > r => res.TIER[x] = "General"
                   /\ \A x \in RowsOf(e) : rank[x] < r => res.TIER[x] = "High Priority"
                   /\ \A x \in RowsOf(e) : rank[x] = r =>
                        res.TIER[x] = IF UpTo(e, r) = slots THEN "High Priority"
                                      ELSE "Unassigned"

\* an element with two open slots and four EOs: the best fills a slot, two
\* tied EOs do not fit the other and stay Unassigned, the last is General
C18_Witness ==
  /\ pc = "updateSlots"
  /\ \E res \in out : \E e \in DOMAIN inp.dict :
       /\ inp.dict[e] = 2
       /\ e \in DOMAIN res.targetDict /\ res.targetDict[e] = 1
       /\ Cardinality({x \in RowsOf(e) : res.TIER[x] = "High Priority"}) = 1
       /\ Cardinality({x \in RowsOf(e) : res.TIER[x] = "Unassigned"}) = 2
       /\ Cardinality({x \in RowsOf(e) : res.TIER[x] = "General"}) = 1

(***************************************************************************)
(* BuildPortfolio, lines 1617-1636 and 1680: the first call of             *)
(* updatePortfolio, without bycatch, which initiates slotDict.             *)
(***************************************************************************)
InitiateSlots ==
  /\ pc = "BuildPortfolio"
  /\ \E types_cs \in SitePlaces, place \in [EOs -> EOPlaces],
        ov \in Overrides(EOs, build \in {"NEW", "NEW_EO"}),
        csov \in Overrides(Sites, build \in {"NEW", "NEW_CS"}) :
       /\ Overridden(ov) + Overridden(csov) <= MaxOverride
       /\ Listed(LAMBDA x, y : ELCODE[x] = ELCODE[y] /\ TIER[x] = TIER[y],
                 LAMBDA x : 3 * PlaceCode[place[x]] + ov[x])
       /\ SITE_TYPE_CS' = types_cs
       /\ SITE_TYPE_EO' = [x \in EOs |-> place[x].types]
       /\ near' = {j \in EOs \X Sites : j[2] \in place[j[1]].near}
       /\ tmpCS' = {c \in Sites : \E x \in EOs : types_cs[c] \in place[x].types}
       /\ CS_OVERRIDE' = csov
       /\ TIER' = IF build \in {"NEW", "NEW_EO"} THEN TIER
                  ELSE CalculateField({x \in EOs : ChoiceRANK[x] = 5}, TIER, "Unassigned")
       /\ \E res \in {updatePortfolio(Geo', TIER', ov, ov, csov, sumTab,
                                      << >>, FALSE, FALSE)} :
            /\ PORTFOLIO' = res.PORTFOLIO
            /\ OVERRIDE' = res.OVERRIDE
            /\ CS_PORTFOLIO' = res.CS_PORTFOLIO
            /\ sumTab' = res.sumTab
            /\ slotDict' = res.slotDict
  /\ pc' = "bycatch"
  /\ UNCHANGED << build, eoInput, eoScore, eoFinal, targetDict, csFinal, helper >>

\* BuildPortfolio, line 1682: the call of updatePortfolio with slotDict and bycatch
AddBycatch ==
  /\ pc = "bycatch"
  /\ \E res \in {updatePortfolio(Geo, TIER, PORTFOLIO, OVERRIDE, CS_PORTFOLIO,
                                 sumTab, slotDict, TRUE, TRUE)} :
       /\ PORTFOLIO' = res.PORTFOLIO
       /\ OVERRIDE' = res.OVERRIDE
       /\ CS_PORTFOLIO' = res.CS_PORTFOLIO
       /\ sumTab' = res.sumTab
       /\ slotDict' = res.slotDict
  /\ pc' = "RANK_bmi"
  /\ UNCHANGED << build, eoInput, eoScore, TIER, eoFinal, targetDict, geometry,
                  CS_OVERRIDE, csFinal, helper >>

NextBycatch ==
  \/ AttributeEOs
  \/ ScoreRankEO
  \/ ScoreRankYear
  \/ ScoreVital
  \/ InitiateSlots
  \/ AddBycatch

SpecBycatch == Init /\ [][NextBycatch]_vars

\* the Unassigned EOs of the element e outside the portfolio that lie within
\* the slop distance of a site of their type that the call has in the portfolio
Bycatch(e) ==
  {x \in EOs : /\ ELCODE[x] = e
               /\ TIER[x] = "Unassigned" /\ PORTFOLIO[x] = 0 /\ OVERRIDE[x] > -1
               /\ \E c \in tmpCS : /\ CS_PORTFOLIO'[c] = 1
                                   /\ SITE_TYPE_CS[c] \in SITE_TYPE_EO[x]
                                   /\ << x, c >> \in near}

(***************************************************************************)
(* C19: a call of updatePortfolio with a slot dictionary adds to the       *)
(* portfolio, as bycatch, only Unassigned EOs of elements that have open   *)
(* slots; when the bycatch EOs of an element are more than its open slots  *)
(* none of them is added and they are marked OVERRIDE = -2.                *)
(***************************************************************************)
C19_BycatchWithinSlots ==
  [][pc = "bycatch" =>
       /\ \A x \in EOs : (PORTFOLIO[x] = 0 /\ PORTFOLIO'[x] = 1) =>
            /\ TIER[x] = "Unassigned"
            /\ ELCODE[x] \in DOMAIN slotDict
            /\ slotDict[ELCODE[x]] > 0
       /\ \A e \in DOMAIN slotDict :
            Cardinality(Bycatch(e)) > slotDict[e] =>
              \A x \in Bycatch(e) : PORTFOLIO'[x] = 0 /\ OVERRIDE'[x] = 0 - 2]_vars

(***************************************************************************)
(* C20: for every element updateSlots sets PORTFOLIO = 1 on no more        *)
(* Unassigned EOs than the element has open slots, and the open slots it   *)
(* returns are those it was given less the EOs added.  With r the smallest *)
(* rank at which the candidates ranked r or better reach the open slots:   *)
(* the candidates ranked before r are added; those tied at r are added     *)
(* when the candidates up to r are exactly as many as the slots, and when  *)
(* they are more none of the tied is added and every candidate ranked      *)
(* after r is set to OVERRIDE = -2.  No other EO is set to -2.             *)
(***************************************************************************)
C20_UpdateSlots ==
  pc = "updated" =>
    \A res \in out : \A e \in DOMAIN inp.dict :
      LET rank == RankOf(inp.table)
          slots == inp.dict[e]
          added == {x \in RowsOf(e) : res.PORTFOLIO[x] = 1}
          dropped == {x \in RowsOf(e) : res.OVERRIDE[x] = 0 - 2}
          open == IF e \in DOMAIN res.slotDict THEN res.slotDict[e] ELSE 0
      IN  /\ Cardinality(added) <= slots
          /\ open = slots - Cardinality(added)
          /\ \A x \in RowsOf(e) : res.PORTFOLIO[x] \in {0, 1} /\ res.OVERRIDE[x] \in {0 - 2, 0}
          /\ Reaching(e) = {} => added = RowsOf(e) /\ dropped = {}
          /\ Reaching(e) # {} =>
               LET r == MinOf(Reaching(e))
               IN  /\ \A x \in RowsOf(e) : rank[x] < r => x \in added
                   /\ \A x \in RowsOf(e) : rank[x] > r => x \notin added
                   /\ UpTo(e, r) = slots =>
                        /\ \A x \in RowsOf(e) : rank[x] = r => x \in added
                        /\ dropped = {}
                   /\ UpTo(e, r) > slots =>
                        /\ \A x \in RowsOf(e) : rank[x] = r => x \notin added
                        /\ dropped = {x \in RowsOf(e) : rank[x] > r}

\* an element with two open slots and four candidates: the best is added,
\* two tied candidates do not fit the slot left, the last is set to -2
C20_Witness ==
  /\ pc = "updated"
  /\ \E res \in out : \E e \in DOMAIN inp.dict :
       /\ inp.dict[e] = 2
       /\ e \in DOMAIN res.slotDict /\ res.slotDict[e] = 1
       /\ Cardinality({x \in RowsOf(e) : res.PORTFOLIO[x] = 1}) = 1
       /\ Cardinality({x \in RowsOf(e) : res.PORTFOLIO[x] = 0 /\ res.OVERRIDE[x] = 0}) = 2
       /\ Cardinality({x \in RowsOf(e) : res.OVERRIDE[x] = 0 - 2}) = 1

\* the elements of the summary table with PORTFOLIO < TARGET
OpenElements ==
  {e \in DOMAIN sumTab : /\ sumTab[e].PORTFOLIO # NULL
                         /\ sumTab[e].TARGET # NULL
                         /\ sumTab[e].PORTFOLIO < sumTab[e].TARGET}

\* the ranking factors of BuildPortfolio in their order, and what follows the last
FactorOrder == << "RANK_bmi", "RANK_nap", "RANK_csVal", "RANK_numPF", "RANK_eoArea",
                  "Finalize" >>

(***************************************************************************)
(* C21: BuildPortfolio applies the ranking factors in the order BMI score, *)
(* NAP presence, CS_CONSVALUE, PF count, EO area.  While an element has    *)
(* PORTFOLIO < TARGET the factor whose turn it is is applied and the next  *)
(* one comes after it; when no element has, no further factor is applied.  *)
(* A factor changes PORTFOLIO and OVERRIDE only of EOs of elements that    *)
(* had open slots when it began.                                           *)
(***************************************************************************)
C21_FactorOrder ==
  [][\A i \in 1..5 : pc = FactorOrder[i] =>
        /\ OpenElements # {} =>
             /\ pc' = FactorOrder[i + 1]
             /\ \A x \in EOs : (PORTFOLIO'[x] # PORTFOLIO[x] \/ OVERRIDE'[x] # OVERRIDE[x])
                                  => ELCODE[x] \in OpenElements
             /\ TIER' = TIER
        /\ OpenElements = {} => pc' = "Done"]_vars

\* all five factors were applied and an element still has an open slot
C21_Witness ==
  /\ pc = "Finalize"
  /\ OpenElements # {}
  /\ \E x \in EOs : TIER[x] = "Unassigned" /\ PORTFOLIO[x] = 1

\* the High Priority EOs of the element e
HighPriority(e) == {x \in EOs : ELCODE[x] = e /\ TIER[x] = "High Priority"}

\* those of them with the best EO rank
TopRankEO(e) ==
  {x \in HighPriority(e) : \A y \in HighPriority(e) : EORANK_NUM[x] <= EORANK_NUM[y]}

\* those of the best EO rank observed within three years of the latest of them
TopRankYear(e) ==
  {x \in TopRankEO(e) : \A y \in TopRankEO(e) : OBSYEAR[y] - OBSYEAR[x] <= 3}

(***************************************************************************)
(* C22: the Vital step of ScoreEOs makes at most one EO of an element      *)
(* Vital, and only a High Priority EO: the only EO at the top RANK_eo      *)
(* among the High Priority EOs of the element or, when several are tied    *)
(* there, the only one of them at the top RANK_year; when neither rank is  *)
(* held by exactly one EO the element gets no Vital EO.  No other tier     *)
(* changes.                                                                *)
(***************************************************************************)
C22_OneVital ==
  [][pc = "Vital" =>
       /\ \A x \in EOs : TIER'[x] # TIER[x] =>
             TIER[x] = "High Priority" /\ TIER'[x] = "Vital"
       /\ \A e \in {ELCODE[x] : x \in EOs} :
            LET vital == {x \in EOs : ELCODE[x] = e /\ TIER'[x] = "Vital"}
            IN  /\ Cardinality(vital) <= 1
                /\ vital = IF Cardinality(TopRankEO(e)) = 1 THEN TopRankEO(e)
                           ELSE IF Cardinality(TopRankYear(e)) = 1 THEN TopRankYear(e)
                           ELSE {}]_vars

\* an element with a Vital EO beside an EO that stays High Priority
C22_Witness ==
  /\ pc = "BuildPortfolio"
  /\ \E x, y \in EOs : /\ ELCODE[x] = ELCODE[y]
                       /\ TIER[x] = "Vital" /\ TIER[y] = "High Priority"

\* the rows of the group g of the ranked table, and the value addRanks compares
GroupRows(g) == {r \in inp.rows : inp.grp[r] = g}

Compared(r) == round(inp.val[r], inp.rounding)

\* the difference of v from a is at most the threshold of the table
WithinThresh(v, a) ==
  IF inp.threshtype = "PER"
  THEN 100 * Abs(v - a) * inp.thresh[2] <= inp.thresh[1] * a
  ELSE Abs(v - a) * inp.thresh[2] <= inp.thresh[1]

\* the reference value of the rank k of the group g: the first value in sort order with that rank
FirstOfRank(g, k) ==
  LET vals == {Compared(r) : r \in {x \in GroupRows(g) : out.RANK[x] = k}}
  IN  IF inp.order = "DESCENDING" THEN MaxOf(vals) ELSE MinOf(vals)

(***************************************************************************)
(* C23: in every group the ranks of addRanks follow the sort order and     *)
(* never decrease along it; every value is within the threshold of the    *)
(* reference value of its rank, which is the first value of that rank, and *)
(* the first value of a rank after the first differs from the reference    *)
(* value before it by more than the threshold; so two values of the same   *)
(* rank differ by at most the threshold (for PER, taken as a percentage of *)
(* the reference value).                                                   *)
(***************************************************************************)
C23_RankThreshold ==
  (pc \in {"modRanks", "ranked"} /\ out.raised = None) =>
     \A g \in {inp.grp[r] : r \in inp.rows} :
        /\ \A r, s \in GroupRows(g) :
             /\ Compared(r) = Compared(s) => out.RANK[r] = out.RANK[s]
             /\ (IF inp.order = "DESCENDING" THEN Compared(r) > Compared(s)
                 ELSE Compared(r) < Compared(s)) => out.RANK[r] <= out.RANK[s]
             /\ out.RANK[r] = out.RANK[s] =>
                  IF inp.threshtype = "PER"
                  THEN 100 * Abs(Compared(r) - Compared(s)) * inp.thresh[2]
                         <= inp.thresh[1] * FirstOfRank(g, out.RANK[r])
                  ELSE WithinThresh(Compared(r), Compared(s))
        /\ \A r \in GroupRows(g) :
             /\ WithinThresh(Compared(r), FirstOfRank(g, out.RANK[r]))
             /\ out.RANK[r] > 1 =>
                  ~WithinThresh(FirstOfRank(g, out.RANK[r]),
                                FirstOfRank(g, out.RANK[r] - 1))

\* three values of a group: the second shares the rank of the first, the
\* third is within the threshold of the second but not of the first
C23_Witness ==
  /\ pc = "modRanks"
  /\ out.raised = None
  /\ \E r, s, t \in inp.rows :
       /\ inp.grp[r] = inp.grp[s] /\ inp.grp[s] = inp.grp[t]
       /\ out.RANK[r] = 1 /\ out.RANK[s] = 1 /\ out.RANK[t] = 2
       /\ Compared(r) # Compared(s)
       /\ Compared(r) = FirstOfRank(inp.grp[r], 1)
       /\ WithinThresh(Compared(t), Compared(s))

(***************************************************************************)
(* C24: modRanks turns the dense ranks of every group into modified        *)
(* competition ranks: the modified rank of a row is the number of rows of  *)
(* its group that precede its rank plus the number of rows that share it,  *)
(* so rows of one original rank get one modified rank, and a lower         *)
(* original rank gets a lower modified rank.                               *)
(***************************************************************************)
C24_ModifiedCompetition ==
  (pc = "ranked") =>
     \A r \in inp.rows :
        LET preceding == {s \in GroupRows(inp.grp[r]) : out.RANK[s] < out.RANK[r]}
            sharing == {s \in GroupRows(inp.grp[r]) : out.RANK[s] = out.RANK[r]}
        IN  /\ out.MODRANK[r] = Cardinality(preceding) + Cardinality(sharing)
            /\ \A s \in sharing : out.MODRANK[s] = out.MODRANK[r]
            /\ \A s \in preceding : out.MODRANK[s] < out.MODRANK[r]

\* a group of three rows: two tied at rank 1 get the modified rank 2, the
\* third has rank 2 and the modified rank 3
C24_Witness ==
  /\ pc = "ranked"
  /\ \E r, s, t \in inp.rows :
       /\ r # s
       /\ inp.grp[r] = inp.grp[s] /\ inp.grp[s] = inp.grp[t]
       /\ out.RANK[r] = 1 /\ out.RANK[s] = 1 /\ out.RANK[t] = 2
       /\ out.MODRANK[r] = 2 /\ out.MODRANK[t] = 3

(***************************************************************************)
(* C25: NEW_GRANK is a normalized G-rank: a T-rank gives the G-rank of the *)
(* same number, an unranked or GX value gives G5, so NEW_GRANK is always   *)
(* one of G1..G5, and the base of TARGET is chosen from it.  The model     *)
(* refutes it: reclass has no branch for GX and returns it unchanged.      *)
(***************************************************************************)
C25_NormalizedGRank ==
  (pc = "targeted") =>
     /\ out.NEW_GRANK \in {"G1", "G2", "G3", "G4", "G5"}
     /\ \A n \in {"1", "2", "3", "4", "5"} :
           inp.RNDGRNK \in {"T" \o n, "G" \o n} => out.NEW_GRANK = "G" \o n
     /\ inp.RNDGRNK \in {"GH", "GNR", "GU", "TX", "GX", "", None} => out.NEW_GRANK = "G5"
     /\ inp.COUNT_ELIG_EO # NULL =>
           out.TARGET = MinOf({inp.COUNT_ELIG_EO,
                               CASE out.NEW_GRANK = "G1" -> 10
                                 [] out.NEW_GRANK = "G2" -> 5
                                 [] OTHER -> 2})

(***************************************************************************)
(* The EXCLUSION field of AttributeEOs on a table of EOs of any EO rank    *)
(* and age, with a table of excluded elements.                             *)
(***************************************************************************)
MaxExcl == 3         \* rows of the EO table classified by EXCLUSION

\* the three calculations in the order of a field written over the same
\* field, upset: the element exclusions first, the EO rank last
ExclusionField_rankLast(order, recent, excluded) ==
  IF reclassOrder(order) # "Keep" THEN reclassOrder(order)
  ELSE IF recent = 0 THEN "Old Observation"
  ELSE IF excluded THEN "Excluded Element"
  ELSE "Keep"

\* lines 1162-1186: the value for low EO ranks, written over for the rows
\* RECENT = 0, and again for the rows joined to the table of exclusions
ExclusionField(order, recent, excluded) ==
  LET low == reclassOrder(order)
      old == IF recent = 0 THEN "Old Observation" ELSE low
  IN  IF excluded THEN "Excluded Element" ELSE old

InitExclusion ==
  /\ pc = "exclusion"
  /\ InitIdle
  /\ inp \in [ELCODE : [1..MaxExcl -> Elements],
              EORANK_NUM : [1..MaxExcl -> {1, 10, 11}],
              RECENT : [1..MaxExcl -> {0, 1, 2}],
              tbl_Exclusions : SUBSET Elements]
  /\ out = << >>

\* AttributeEOs, lines 1158-1186 and 1239-1336, on the EO table
RunExclusion ==
  /\ pc = "exclusion"
  /\ LET rows == DOMAIN inp.ELCODE
         excl == [x \in rows |->
                    ExclusionField(inp.EORANK_NUM[x], inp.RECENT[x],
                                   inp.ELCODE[x] \in inp.tbl_Exclusions)]
         lyr_EO == {x \in rows : excl[x] = "Keep"}
         count(e) == LET n == Cardinality({x \in lyr_EO : inp.ELCODE[x] = e})
                     IN  IF n = 0 THEN NULL ELSE n
         tab == [e \in {inp.ELCODE[x] : x \in rows} |->
                   [COUNT_ELIG_EO |-> count(e), INIT_TIER |-> calcTier(count(e))]]
     IN  out' = [EXCLUSION |-> excl,
                 sumTab |-> tab,
                 TIER |-> [x \in rows |-> IF x \in lyr_EO
                                          THEN tab[inp.ELCODE[x]].INIT_TIER
                                          ELSE None]]
  /\ pc' = "excluded"
  /\ UNCHANGED << workflow, inp >>

NextExclusion == RunExclusion

SpecExclusion == InitExclusion /\ [][NextExclusion]_vars

\* the EOs of the table that are not of an excluded element and not old
Retained == {x \in DOMAIN inp.ELCODE :
               inp.ELCODE[x] \notin inp.tbl_Exclusions /\ inp.RECENT[x] # 0}

\* only the EOs classified Keep are counted as eligible and have a TIER
KeepIsEligible ==
  /\ \A e \in DOMAIN out.sumTab :
        LET n == Cardinality({x \in DOMAIN inp.ELCODE :
                                inp.ELCODE[x] = e /\ out.EXCLUSION[x] = "Keep"})
        IN  out.sumTab[e].COUNT_ELIG_EO = IF n = 0 THEN NULL ELSE n
  /\ \A x \in DOMAIN inp.ELCODE :
        IF out.EXCLUSION[x] = "Keep"
        THEN out.TIER[x] \in {"Irreplaceable", "Critical", "Unassigned"}
        ELSE out.TIER[x] = None

(***************************************************************************)
(* C26: every EO gets exactly one EXCLUSION value among Keep, Not viable,  *)
(* Old Observation and Excluded Element; an EO of an element of the        *)
(* exclusions table is Excluded Element whatever its rank and age; only    *)
(* the EOs classified Keep are counted as eligible and receive a TIER.     *)
(* The model refutes the first part: an EO rank outside A..D gives a fifth *)
(* value.                                                                  *)
(***************************************************************************)
C26_FourExclusions ==
  (pc = "excluded") =>
     /\ \A x \in DOMAIN inp.ELCODE :
          /\ out.EXCLUSION[x] \in {"Keep", "Not viable", "Old Observation",
                                   "Excluded Element"}
          /\ inp.ELCODE[x] \in inp.tbl_Exclusions => out.EXCLUSION[x] = "Excluded Element"
     /\ KeepIsEligible

(***************************************************************************)
(* C26, amended: every EO gets exactly one EXCLUSION value among Keep, Not *)
(* viable, Old Observation, Excluded Element and Error Check Needed, the   *)
(* last for an EO of rank number above 10 that is neither old nor of an    *)
(* excluded element; an EO of an element of the exclusions table is        *)
(* Excluded Element whatever its rank and age, another EO with RECENT = 0  *)
(* is Old Observation whatever its rank; only the EOs classified Keep are  *)
(* counted as eligible and receive a TIER.                                 *)
(***************************************************************************)
C26_Exclusions ==
  (pc = "excluded") =>
     /\ \A x \in DOMAIN inp.ELCODE :
          /\ out.EXCLUSION[x] \in {"Keep", "Not viable", "Old Observation",
                                   "Excluded Element", "Error Check Needed"}
          /\ inp.ELCODE[x] \in inp.tbl_Exclusions => out.EXCLUSION[x] = "Excluded Element"
          /\ (inp.ELCODE[x] \notin inp.tbl_Exclusions /\ inp.RECENT[x] = 0) =>
                out.EXCLUSION[x] = "Old Observation"
          /\ out.EXCLUSION[x] = "Error Check Needed" <=>
                (x \in Retained /\ inp.EORANK_NUM[x] > 10)
          /\ out.EXCLUSION[x] = "Not viable" <=>
                (x \in Retained /\ inp.EORANK_NUM[x] = 10)
          /\ out.EXCLUSION[x] = "Keep" <=>
                (x \in Retained /\ inp.EORANK_NUM[x] < 10)
     /\ KeepIsEligible

\* an old EO of rank D of an excluded element is Excluded Element, a recent
\* EO of unknown rank needs an error check, and a third EO is kept with a TIER
C26_Witness ==
  /\ pc = "excluded"
  /\ \E x, y, z \in DOMAIN inp.ELCODE :
       /\ inp.ELCODE[x] \in inp.tbl_Exclusions
       /\ inp.EORANK_NUM[x] = 10 /\ inp.RECENT[x] = 0
       /\ out.EXCLUSION[x] = "Excluded Element"
       /\ out.EXCLUSION[y] = "Error Check Needed"
       /\ out.EXCLUSION[z] = "Keep" /\ out.TIER[z] = "Irreplaceable"

(***************************************************************************)
(* CreateConSites, lines 1860-1985, on a transect across one ProtoSite:    *)
(* the cells 1..MaxCells are 10 m wide and every feature spans the width   *)
(* of the transect, so that a polygon is a run of cells and none has a     *)
(* contained part.                                                         *)
(***************************************************************************)
MaxCells == 5        \* cells of the transect across a ProtoSite

Cells == 1..MaxCells

\* CullFrags with searchDist = "0 METERS": the fragments (runs of cells) of
\* inFrags that hold or touch a cell of in_PF
CullFragments(inFrags, in_PF) ==
  {c \in inFrags :
     \E d \in inFrags :
        /\ \E p \in in_PF : Abs(p - d) <= 1
        /\ \A k \in MinOf({c, d})..MaxOf({c, d}) : k \in inFrags}

\* Coalesce with a positive dilation distance of dilDist cells: buffer out
\* and dissolve, then buffer in by the same distance
Coalesce(inFeats, dilDist) ==
  LET Buff1 == {c \in (1 - dilDist)..(MaxCells + dilDist) :
                  \E s \in inFeats : Abs(c - s) <= dilDist}
  IN  {c \in Buff1 : \A k \in (c - dilDist)..(c + dilDist) : k \in Buff1}

InitErase ==
  /\ pc = "site"
  /\ InitIdle
  /\ inp \in [site_Type : {"TERRESTRIAL", "AHZ"},
              efClp : SUBSET Cells,
              coalErase : {s \in SUBSET Cells : Cardinality(s) <= 1},
              PF : (SUBSET Cells) \ {{}}]
  /\ out = [done |-> {}, tmpSS_grp |-> {}, out_ConSites |-> {}]

\* lines 1864-1950: one pass of the loop over the split sites, the retained
\* fragments of the ProtoSite; the shrink-wrapped SBB fragments of its PFs
\* are any run of cells that holds them
SplitSite ==
  /\ pc = "site"
  /\ LET finErase == IF inp.site_Type = "TERRESTRIAL"
                     THEN inp.coalErase \cup inp.efClp
                     ELSE inp.coalErase
         psRtn == CullFragments(Cells \ finErase, inp.PF)
     IN  /\ psRtn \ out.done # {}
         /\ LET first == MinOf(psRtn \ out.done)
                tmpSS == {d \in psRtn : d >= first /\ \A k \in first..d : k \in psRtn}
                tmpPF2 == {p \in inp.PF : \E d \in tmpSS : Abs(p - d) <= 1}
            IN  \E lo \in 1..MinOf(tmpPF2), hi \in MaxOf(tmpPF2)..MaxCells :
                   LET csShrink == lo..hi
                       siteFrags == csShrink \ finErase
                       ssBnd == CullFragments(siteFrags, tmpPF2)
                   IN  out' = [out EXCEPT !.done = @ \cup tmpSS,
                                          !.tmpSS_grp = @ \cup ssBnd]
  /\ pc' = "site"
  /\ UNCHANGED << workflow, inp >>

\* lines 1952-1985: the split sites smoothed by Coalesce with "10 METERS",
\* holes eliminated and the boundary generalized by less than a cell, and
\* the result appended to out_ConSites; no exclusion is erased after it
SmoothAppend ==
  /\ pc = "site"
  /\ LET finErase == IF inp.site_Type = "TERRESTRIAL"
                     THEN inp.coalErase \cup inp.efClp
                     ELSE inp.coalErase
         psRtn == CullFragments(Cells \ finErase, inp.PF)
     IN  psRtn \ out.done = {}
  /\ out' = [out EXCEPT !.out_ConSites = Coalesce(out.tmpSS_grp, 1)]
  /\ pc' = "appended"
  /\ UNCHANGED << workflow, inp >>

NextErase ==
  \/ SplitSite
  \/ SmoothAppend

SpecErase == InitErase /\ [][NextErase]_vars

(***************************************************************************)
(* C27: for a TERRESTRIAL site the manual exclusion features remain        *)
(* erased: the split sites gathered in the loop hold no part of an         *)
(* exclusion feature, and neither does the Site polygon appended to the    *)
(* output after the final smoothing.  The model refutes the second part:   *)
(* the smoothing closes the gap that an exclusion feature has cut between  *)
(* two split sites, and nothing is erased after it.                        *)
(***************************************************************************)
C27_ExclusionsErased ==
  inp.site_Type = "TERRESTRIAL" =>
     /\ out.tmpSS_grp \cap inp.efClp = {}
     /\ pc = "appended" => out.out_ConSites \cap inp.efClp = {}

(***************************************************************************)
(* ExpandSelection on a layer of MaxLayer features: near holds the pairs   *)
(* of distinct features within SearchDist of each other, and sel is the    *)
(* selection on the layer when the function is called.                     *)
(***************************************************************************)
MaxLayer == 4        \* features of the layer given to ExpandSelection

\* the selection grown only from the selection of the call
SelectLayerByLocation_fromFirst(selection) ==
  selection \cup {f \in 1..MaxLayer : \E s \in inp.sel : {f, s} \in inp.near}

\* SelectLayerByLocation(inLyr, "WITHIN_A_DISTANCE", inLyr, SearchDist,
\* "ADD_TO_SELECTION"): the selection and the features near one of its own
SelectLayerByLocation(selection) ==
  selection \cup {f \in 1..MaxLayer : \E s \in selection : {f, s} \in inp.near}

InitExpand ==
  /\ pc = "ExpandSelection"
  /\ InitIdle
  /\ inp \in [near : SUBSET ({{f, g} : f, g \in 1..MaxLayer} \ {{f} : f \in 1..MaxLayer}),
              sel : SUBSET (1..MaxLayer)]
  /\ out = [selection |-> inp.sel, c0 |-> NULL, c1 |-> NULL, msg |-> None]

\* lines 257-264: the count of the selection, the error for an empty one
ExpandStart ==
  /\ pc = "ExpandSelection"
  /\ IF Cardinality(out.selection) = 0
     THEN /\ out' = [out EXCEPT !.msg = "You need to have an active selection"]
          /\ pc' = "returned"
     ELSE /\ out' = [out EXCEPT !.c0 = 0, !.c1 = 1]
          /\ pc' = "while"
  /\ UNCHANGED << workflow, inp >>

\* lines 266-275: one pass of the loop while c0 < c1
ExpandLoop ==
  /\ pc = "while"
  /\ out.c0 < out.c1
  /\ LET added == SelectLayerByLocation(out.selection)
     IN  out' = [out EXCEPT !.c0 = Cardinality(out.selection),
                            !.selection = added,
                            !.c1 = Cardinality(added)]
  /\ pc' = "while"
  /\ UNCHANGED << workflow, inp >>

\* line 277: the loop has ended
ExpandReturn ==
  /\ pc = "while"
  /\ ~(out.c0 < out.c1)
  /\ pc' = "returned"
  /\ UNCHANGED << workflow, inp, out >>

NextExpand ==
  \/ ExpandStart
  \/ ExpandLoop
  \/ ExpandReturn

SpecExpand == InitExpand /\ [][NextExpand]_vars /\ WF_vars(NextExpand)

\* the features reached from the selection of the call by chains of features
\* each near the one before: the least set that holds the selection and
\* every feature near one of its own
Reachable ==
  {f \in 1..MaxLayer :
     \A T \in SUBSET (1..MaxLayer) :
        (/\ inp.sel \subseteq T
         /\ \A s \in T, g \in 1..MaxLayer : {s, g} \in inp.near => g \in T) => f \in T}

(***************************************************************************)
(* C28: ExpandSelection returns for every layer and every selection; on    *)
(* return the selection is exactly the set of features reachable from the  *)
(* selection of the call through chains of features each within SearchDist *)
(* of the one before, and no feature outside the selection is within       *)
(* SearchDist of a selected one, so that one more step would add nothing.  *)
(***************************************************************************)
C28_ExpandSelection ==
  /\ <>(pc = "returned")
  /\ [](pc = "returned" =>
          /\ out.selection = Reachable
          /\ \A s \in out.selection, f \in 1..MaxLayer :
                {s, f} \in inp.near => f \in out.selection)

\* a chain of four features selected from its first one: three passes of
\* the loop each add the next feature of the chain
C28_Witness ==
  /\ pc = "returned"
  /\ \E a, b, c, d \in 1..MaxLayer :
       /\ inp.sel = {a}
       /\ Cardinality({a, b, c, d}) = 4
       /\ {{a, b}, {b, c}, {c, d}} \subseteq inp.near
       /\ {{a, c}, {a, d}, {b, d}} \cap inp.near = {}
       /\ {a, b, c, d} \subseteq out.selection
       /\ out.c0 = out.c1

(***************************************************************************)
(* BuildPortfolio run again on its own output, as its documentation        *)
(* advises for a build with overrides: the prioritized EOs and sites of a  *)
(* NEW build are the inputs of a build UPDATE or NEW_EO.  Lines 1617-1682  *)
(* on the sites and the positions read by the NEW build.                   *)
(***************************************************************************)
RebuildStart ==
  /\ pc = "Done"
  /\ build = "NEW"
  /\ build' \in {"UPDATE", "NEW_EO"}
  /\ \E ov \in Overrides(EOs, build' = "NEW_EO"), csov \in Overrides(Sites, FALSE) :
       /\ Overridden(ov) + Overridden(csov) <= MaxOverride
       /\ CS_OVERRIDE' = csov
       /\ TIER' = IF build' = "NEW_EO" THEN TIER
                  ELSE CalculateField({x \in EOs : ChoiceRANK[x] = 5}, TIER, "Unassigned")
       /\ \E res \in {BuildStartPortfolio([Geo EXCEPT !.CS_OVERRIDE = csov], TIER', ov,
                                          sumTab)} :
            /\ PORTFOLIO' = res.PORTFOLIO
            /\ OVERRIDE' = res.OVERRIDE
            /\ CS_PORTFOLIO' = res.CS_PORTFOLIO
            /\ sumTab' = res.sumTab
            /\ slotDict' = res.slotDict
  /\ pc' = "RANK_bmi"
  /\ UNCHANGED << eoInput, eoScore, eoFinal, targetDict, geometry, csFinal, helper >>

NextRebuild ==
  \/ Next
  \/ RebuildStart

InitRebuild ==
  /\ pc = "AttributeEOs"
  /\ build = "NEW"
  /\ InitEOs(UpdateEOs)
  /\ InitFields
  /\ inp = << >>
  /\ out = << >>

SpecRebuild == InitRebuild /\ [][NextRebuild]_vars

\* the changes of tier of the scoring and of the portfolio build
TierSteps == {<< "Unassigned", "High Priority" >>, << "Unassigned", "General" >>,
              << "High Priority", "Vital" >>}

(***************************************************************************)
(* C29: throughout ScoreEOs and BuildPortfolio the TIER of an EO changes   *)
(* only from Unassigned to High Priority, from Unassigned to General and   *)
(* from High Priority to Vital; no EO returns to Unassigned.  The model    *)
(* refutes it for a build that keeps the picks of the EOs.                 *)
(***************************************************************************)
C29_TierOnlyAdvances ==
  [][pc # "AttributeEOs" =>
       \A x \in EOs : TIER'[x] # TIER[x] => << TIER[x], TIER'[x] >> \in TierSteps]_vars

(***************************************************************************)
(* C29, amended: throughout ScoreEOs and a BuildPortfolio of build NEW or  *)
(* NEW_EO the TIER of an EO changes only from Unassigned to High Priority, *)
(* from Unassigned to General and from High Priority to Vital.  A          *)
(* BuildPortfolio of build UPDATE or NEW_CS first returns to Unassigned    *)
(* every EO with ChoiceRANK = 5, whatever tier an earlier build has given  *)
(* it, and changes no other tier in that step; after it the same three     *)
(* changes are the only ones.  An EO that is Irreplaceable, Critical or    *)
(* Vital never changes tier.                                               *)
(***************************************************************************)
C29_TierChanges ==
  [][pc # "AttributeEOs" =>
       \A x \in EOs :
          /\ TIER[x] \in {"Irreplaceable", "Critical", "Vital"} => TIER'[x] = TIER[x]
          /\ IF pc \in {"BuildPortfolio", "Done"} /\ build' \in {"UPDATE", "NEW_CS"}
             THEN TIER'[x] = IF ChoiceRANK[x] = 5 THEN "Unassigned" ELSE TIER[x]
             ELSE TIER'[x] # TIER[x] => << TIER[x], TIER'[x] >> \in TierSteps]_vars

\* an EO that the NEW build has made General and one that it has made High
\* Priority are Unassigned again in the build UPDATE that follows
C29_Witness ==
  /\ build = "UPDATE"
  /\ pc = "RANK_bmi"
  /\ \E x, y \in EOs :
       /\ TIER[x] = "Unassigned" /\ FinalRANK[x] = 5
       /\ TIER[y] = "Unassigned" /\ FinalRANK[y] = 4

\* the EOs whose type of site is the type of one of the input sites
TypeAmongSites == {x \in EOs : \E c \in Sites : SITE_TYPE_CS[c] \in SITE_TYPE_EO[x]}

(***************************************************************************)
(* C30: in a NEW BuildPortfolio the field PORTFOLIO of the EOs and of the  *)
(* sites is set to 0 at the start and afterwards only ever changes from 0  *)
(* to 1; in the output an eligible EO whose type of site occurs among the  *)
(* input sites has PORTFOLIO = 1 if and only if its final TIER is          *)
(* Irreplaceable, Critical, Vital or High Priority.                        *)
(***************************************************************************)
C30_PortfolioGrows ==
  /\ [][/\ \A x \in EOs :
              PORTFOLIO'[x] # PORTFOLIO[x] =>
                 \/ pc = "BuildPortfolio" /\ PORTFOLIO[x] = NULL /\ PORTFOLIO'[x] \in {0, 1}
                 \/ PORTFOLIO[x] = 0 /\ PORTFOLIO'[x] = 1
        /\ \A c \in Sites :
              CS_PORTFOLIO'[c] # CS_PORTFOLIO[c] =>
                 \/ pc = "BuildPortfolio" /\ CS_PORTFOLIO[c] = NULL
                                          /\ CS_PORTFOLIO'[c] \in {0, 1}
                 \/ CS_PORTFOLIO[c] = 0 /\ CS_PORTFOLIO'[c] = 1]_vars
  /\ [](pc = "Done" =>
          \A x \in Eligible \cap TypeAmongSites :
             PORTFOLIO[x] = 1 <=>
                TIER[x] \in {"Irreplaceable", "Critical", "Vital", "High Priority"})

\* the output holds an EO that entered the portfolio during the build and is
\* High Priority, and one left out of it that is General
C30_Witness ==
  /\ pc = "Done"
  /\ \E x, y \in Eligible \cap TypeAmongSites :
       /\ ChoiceRANK[x] = 5 /\ PORTFOLIO[x] = 1 /\ TIER[x] = "High Priority"
       /\ ChoiceRANK[y] = 5 /\ PORTFOLIO[y] = 0 /\ TIER[y] = "General"
  /\ \E c \in Sites : CS_PORTFOLIO[c] = 1

====
